---- MODULE Spec2Model ----
(***************************************************************************)
(* Model of the knowledge retrieval and response resolution core of the   *)
(* assistant: KnowledgeBase (src/knowledge_base.py), the resolution call  *)
(* MLEngine.generate_response (src/ml_engine.py) and its caller           *)
(* AISystem.process_input (src/main.py).                                  *)
(*                                                                         *)
(* Texts are sequences of words.  Numbers that are floats in the program  *)
(* are fixed-point integers here: importance in tenths (0.7 is 7), idf    *)
(* weights in hundredths, cosine similarity in thousandths, the combined  *)
(* score in ten-thousandths.                                               *)
(***************************************************************************)
EXTENDS Integers, Sequences, FiniteSets, TLC

VARIABLES facts, semantic_vectors, conversations, predefined_responses,
          model_ready, knowledge_base_up, ml_engine_up, conversation_history,
          last, now, calls, system, harvester, training, config

vars == <<facts, semantic_vectors, conversations, predefined_responses,
          model_ready, knowledge_base_up, ml_engine_up, conversation_history,
          last, now, calls, system, harvester, training, config>>

\* The clock datetime('now') reads, the store calls that have read the
\* facts and not yet updated the access statistics, and the state of the
\* AISystem object around the knowledge base and the ML engine.
\* The components of the AISystem that run threads of their own.
services == <<harvester, training, config>>

environment == <<now, calls, system, services>>

(***************************************************************************)
(* Bounds of the model.                                                    *)
(***************************************************************************)
MaxFacts == 3
MaxAccess == 2
MaxTurns == 1

(***************************************************************************)
(* Program constants.                                                      *)
(***************************************************************************)
MinDf == 2
MaxDfPct == 85
SimilarityWeight == 7
ImportanceWeight == 3
ResolverLimit == 3
HistoryLimit == 100
HistoryMinTurns == 5
HistoryThreshold == 600
VectorMinFacts == 5
MinSimilarity == 200

NULL == "NULL"

(***************************************************************************)
(* Text preprocessing of TfidfVectorizer(lowercase=True,                   *)
(* ngram_range=(1, 2)), with or without strip_accents='unicode', with the *)
(* default token pattern, which keeps only words of two or more           *)
(* characters.                                                             *)
(***************************************************************************)
LowerWord(w) ==
    CASE w = "Paris" -> "paris"
      [] w = "Francia" -> "francia"
      [] w = "Madrid" -> "madrid"
      [] w = "Hola" -> "hola"
      [] w = "Adiós" -> "adiós"
      [] OTHER -> w

StripAccents(w) ==
    CASE w = "adiós" -> "adios"
      [] w = "días" -> "dias"
      [] OTHER -> w

OneCharWords == {"y", "o", "?"}

Lower(text) == [i \in 1..Len(text) |-> LowerWord(text[i])]

IsToken(w) == w \notin OneCharWords

Tokenize(text, strip_accents) ==
    SelectSeq([i \in 1..Len(text) |->
                 IF strip_accents THEN StripAccents(LowerWord(text[i]))
                 ELSE LowerWord(text[i])], IsToken)

\* The unigrams and bigrams of a token sequence.
Features(toks) ==
    {<<toks[i]>> : i \in 1..Len(toks)}
      \cup {<<toks[i], toks[i + 1]>> : i \in 1..(Len(toks) - 1)}

\* Number of occurrences of the n-gram f in the token sequence.
TermCount(f, toks) ==
    IF Len(f) = 1
    THEN Cardinality({i \in 1..Len(toks) : toks[i] = f[1]})
    ELSE Cardinality({i \in 1..(Len(toks) - 1) :
                         toks[i] = f[1] /\ toks[i + 1] = f[2]})

\* The elements of a finite set, listed in some fixed order.
RECURSIVE SetToSeq(_)
SetToSeq(S) ==
    IF S = {} THEN <<>>
    ELSE LET x == CHOOSE y \in S : TRUE
         IN <<x>> \o SetToSeq(S \ {x})

\* The dot product of two rows of equal length.
RECURSIVE Dot(_, _)
Dot(u, v) ==
    IF u = <<>> THEN 0
    ELSE Head(u) * Head(v) + Dot(Tail(u), Tail(v))

RECURSIVE ISqrtIn(_, _, _)
ISqrtIn(x, lo, hi) ==
    IF lo >= hi THEN lo
    ELSE LET mid == (lo + hi + 1) \div 2
         IN IF mid * mid <= x THEN ISqrtIn(x, mid, hi)
            ELSE ISqrtIn(x, lo, mid - 1)

\* Integer square root of x, for 0 <= x <= 1000000.
ISqrt(x) == ISqrtIn(x, 0, 1000)

\* 100 * ln(k), rounded, for k = 1..12.
Ln100 == <<0, 69, 110, 139, 161, 179, 195, 208, 220, 230, 240, 248>>

\* Smoothed inverse document frequency, ln((1 + n) / (1 + df)) + 1, in
\* hundredths.
Idf100(n, df) == 100 + Ln100[1 + n] - Ln100[1 + df]

(***************************************************************************)
(* fit_transform of a TfidfVectorizer with the given strip_accents, min_df *)
(* (a count) and max_df (a proportion, in percent) on a list of           *)
(* documents.  The result is either an error (the ValueError the library  *)
(* raises) or the matrix of tf-idf weights, one row per document.         *)
(***************************************************************************)
FitTransform(docs, strip_accents, min_df, max_df_pct) ==
    LET n == Len(docs)
        toks == [i \in 1..n |-> Tokenize(docs[i], strip_accents)] \o <<>>
        raw == UNION {Features(toks[i]) : i \in 1..n}
        DF(f) == Cardinality({i \in 1..n : TermCount(f, toks[i]) > 0})
        kept == SetToSeq({f \in raw :
                            DF(f) * 100 <= max_df_pct * n /\ DF(f) >= min_df})
        idf == [k \in 1..Len(kept) |-> Idf100(n, DF(kept[k]))] \o <<>>
    IN IF raw = {}
       THEN [error |-> "empty vocabulary", matrix |-> <<>>]
       ELSE IF max_df_pct * n < min_df * 100
       THEN [error |-> "max_df corresponds to < documents than min_df",
             matrix |-> <<>>]
       ELSE IF kept = <<>>
       THEN [error |-> "After pruning, no terms remain", matrix |-> <<>>]
       ELSE [error |-> "none",
             matrix |-> [i \in 1..n |->
                           ([k \in 1..Len(kept) |->
                               TermCount(kept[k], toks[i]) * idf[k]] \o <<>>)]
                          \o <<>>]

\* Cosine similarity of two rows, in thousandths; a zero row has similarity
\* 0 to everything.
CosineSimilarity(u, v) ==
    LET dot == Dot(u, v)
        n2u == Dot(u, u)
        n2v == Dot(v, v)
    IN IF n2u = 0 \/ n2v = 0 \/ dot = 0 THEN 0
       ELSE ISqrt(((dot * 1000) \div n2u) * ((dot * 1000) \div n2v))

\* cosine_similarity(tfidf_matrix[-1:], tfidf_matrix[:-1])[0]: the similarity
\* of the last row (the query) to every other row.
CosineSimilarities(matrix) ==
    LET n == Len(matrix)
    IN [i \in 1..(n - 1) |-> CosineSimilarity(matrix[n], matrix[i])] \o <<>>

(***************************************************************************)
(* The facts table.  A row is [id, content, category, importance,         *)
(* created_at, last_accessed, access_count]; ids are assigned by          *)
(* AUTOINCREMENT and no operation deletes a row, so the id of a new row   *)
(* is the number of rows plus one.  last_accessed is <<>> while NULL and  *)
(* <<t>> once set to the time t.                                          *)
(***************************************************************************)
TParis == <<"Paris", "capital", "Francia">>
TMadrid == <<"Madrid", "capital">>
TCapital == <<"capital">>
TCapitalFrancia == <<"capital", "Francia">>
TNonsense == <<"xyz">>
TEmpty == <<>>

\* The arguments add_fact is called with: the GUI slider gives importances
\* 0.1 .. 1.0, the harvester 0.7.
FactInputs ==
    { [content |-> TParis, category |-> "geo", importance |-> 9],
      [content |-> TParis, category |-> "geo", importance |-> 3],
      [content |-> TMadrid, category |-> "geo", importance |-> 7],
      [content |-> TCapital, category |-> NULL, importance |-> 1] }

SearchQueries == {TParis, TCapitalFrancia, TCapital, TNonsense, TEmpty}

Limits == {0, 1, 10}

FactIds(fs) == [i \in 1..Len(fs) |-> fs[i].id]

FactContents(fs) == [i \in 1..Len(fs) |-> fs[i].content]

\* A score that leaves the similarity out.
CombinedScoreByImportance(similarity, importance) ==
    ImportanceWeight * importance * 100

\* combined_score = (0.7 * similarity) + (0.3 * float(importance)), in
\* ten-thousandths.
CombinedScore(similarity, importance) ==
    SimilarityWeight * similarity + ImportanceWeight * importance * 100

\* rankings.sort(key=lambda x: x[1], reverse=True): a stable sort, so rows of
\* equal score keep their order.  Insert r after the last entry whose score is
\* not lower.
\* An insertion that puts a ranking before the rankings of equal score.
RECURSIVE InsertBeforeEqual(_, _)
InsertBeforeEqual(r, sorted) ==
    IF sorted = <<>> THEN <<r>>
    ELSE IF Head(sorted).score > r.score
         THEN <<Head(sorted)>> \o InsertBeforeEqual(r, Tail(sorted))
         ELSE <<r>> \o sorted

RECURSIVE InsertDesc(_, _)
InsertDesc(r, sorted) ==
    IF sorted = <<>> THEN <<r>>
    ELSE IF Head(sorted).score >= r.score
         THEN <<Head(sorted)>> \o InsertDesc(r, Tail(sorted))
         ELSE <<r>> \o sorted

RECURSIVE SortDesc(_)
SortDesc(rankings) ==
    IF rankings = <<>> THEN <<>>
    ELSE InsertDesc(rankings[Len(rankings)],
                    SortDesc(SubSeq(rankings, 1, Len(rankings) - 1)))

\* The Python slice s[:limit].
Slice(s, limit) ==
    IF limit >= 0
    THEN SubSeq(s, 1, IF limit < Len(s) THEN limit ELSE Len(s))
    ELSE SubSeq(s, 1, IF Len(s) + limit > 0 THEN Len(s) + limit ELSE 0)

\* A ranking that puts the facts read most often last.
RankingsByAccess(fs, sims) ==
    [i \in 1..Len(fs) |->
       [fact_id |-> fs[i].id,
        score |-> CombinedScore(sims[i], fs[i].importance)
                     - 10000 * fs[i].access_count]] \o <<>>

\* The ranking list search_facts builds from the rows and the similarities.
Rankings(fs, sims) ==
    [i \in 1..Len(fs) |->
       [fact_id |-> fs[i].id,
        score |-> CombinedScore(sims[i], fs[i].importance)]] \o <<>>

FactDict(f) ==
    [id |-> f.id, content |-> f.content, category |-> f.category,
     importance |-> f.importance]

\* The row with the given id (ids are positions).
RowOf(fs, fact_id) == fs[CHOOSE i \in 1..Len(fs) : fs[i].id = fact_id]

(***************************************************************************)
(* KnowledgeBase.search_facts, up to the access statistics.  RankFacts is *)
(* the vectorization and ranking of the rows read: the error raised by    *)
(* the vectorizer, or the ranking list after the sort.  SearchResult is   *)
(* the list search_facts returns and the error it logs; db_ok is whether  *)
(* the storage layer answers.  Every exception is caught and turns into   *)
(* the empty list; vectorized tells whether the vectorizer was fitted.     *)
(***************************************************************************)
RankFacts(fs, query) ==
    IF fs = <<>> THEN [error |-> "none", sorted |-> <<>>, similarities |-> <<>>]
    ELSE LET fit == FitTransform(FactContents(fs) \o <<query>>, TRUE, MinDf, MaxDfPct)
         IN IF fit.error # "none"
            THEN [error |-> fit.error, sorted |-> <<>>, similarities |-> <<>>]
            ELSE LET cosine_similarities == CosineSimilarities(fit.matrix)
                 IN [error |-> "none",
                     sorted |-> SortDesc(Rankings(fs, cosine_similarities)),
                     similarities |-> cosine_similarities]

\* A search that fits the vectorizer on the query alone when no fact is
\* stored.
SearchResultFittingEmpty(fs, ranked, limit, db_ok) ==
    IF ~db_ok
    THEN [results |-> <<>>, error |-> "storage", vectorized |-> FALSE]
    ELSE IF fs = <<>>
    THEN [results |-> <<>>, error |-> "max_df corresponds to < documents than min_df",
          vectorized |-> TRUE]
    ELSE IF ranked.error # "none"
    THEN [results |-> <<>>, error |-> ranked.error, vectorized |-> TRUE]
    ELSE LET top == Slice(ranked.sorted, limit)
         IN [results |-> [k \in 1..Len(top) |-> FactDict(RowOf(fs, top[k].fact_id))],
             error |-> "none", vectorized |-> TRUE]

SearchResult(fs, ranked, limit, db_ok) ==
    IF ~db_ok
    THEN [results |-> <<>>, error |-> "storage", vectorized |-> FALSE]
    ELSE IF fs = <<>>
    THEN [results |-> <<>>, error |-> "none", vectorized |-> FALSE]
    ELSE IF ranked.error # "none"
    THEN [results |-> <<>>, error |-> ranked.error, vectorized |-> TRUE]
    ELSE LET top == Slice(ranked.sorted, limit)
         IN [results |-> [k \in 1..Len(top) |-> FactDict(RowOf(fs, top[k].fact_id))],
             error |-> "none", vectorized |-> TRUE]

\* An update that writes the count instead of adding to it.
UpdateAccessStatsFromZero(fs, fact_ids, db_ok) ==
    IF ~db_ok THEN fs
    ELSE [i \in 1..Len(fs) |->
            IF \E k \in 1..Len(fact_ids) : fact_ids[k] = fs[i].id
            THEN [fs[i] EXCEPT !.last_accessed = <<now>>, !.access_count = 1]
            ELSE fs[i]]

\* An update without its WHERE clause: every row is counted as read.
UpdateAccessStatsEveryRow(fs, fact_ids, db_ok) ==
    IF ~db_ok THEN fs
    ELSE [i \in 1..Len(fs) |->
            [fs[i] EXCEPT !.last_accessed = <<now>>, !.access_count = @ + 1]]

\* KnowledgeBase._update_access_stats: access_count + 1 on every listed row;
\* a storage failure is logged and changes nothing.
UpdateAccessStats(fs, fact_ids, db_ok) ==
    IF ~db_ok THEN fs
    ELSE [i \in 1..Len(fs) |->
            IF \E k \in 1..Len(fact_ids) : fact_ids[k] = fs[i].id
            THEN [fs[i] EXCEPT !.last_accessed = <<now>>,
                               !.access_count = @ + 1]
            ELSE fs[i]]

\* The rows after search_facts has returned results.
AfterSearch(fs, results, stats_ok) ==
    IF results = <<>> THEN fs
    ELSE UpdateAccessStats(fs, [k \in 1..Len(results) |-> results[k].id], stats_ok)

\* KnowledgeBase._update_semantic_vector: with five or more facts the shared
\* vectorizer is refitted on the fact contents and the vector rows of the
\* type are replaced by one row per fact; an error is logged and the rows are
\* left as they were.
UpdateSemanticVector(fs, vectors) ==
    IF Len(fs) < VectorMinFacts THEN vectors
    ELSE IF FitTransform(FactContents(fs), TRUE, MinDf, MaxDfPct).error # "none"
         THEN vectors
         ELSE FactIds(fs)

\* An end of the read that gives up the results when the update fails.
ReturnNothingOnStatsError(results, stats_ok) ==
    IF stats_ok THEN results ELSE <<>>

\* The end of search_facts and of get_facts_by_category: the access
\* statistics are updated and the results are returned, whether or not the
\* update succeeded.
ReturnAfterStats(results, stats_ok) == results

Idle == [op |-> "none"]

(***************************************************************************)
(* ConfigManager.  A configuration is a Python dict whose values are       *)
(* scalars or nested dicts.  Python dicts are objects: an assignment or a  *)
(* dict.copy() stores a reference to a nested dict, not a copy of it, so   *)
(* the nested dicts live in a heap and the top-level dicts hold            *)
(* references into it.  Of the predefined configuration three entries are  *)
(* kept: a scalar, and two sections.  A key is the sequence of the parts   *)
(* that key.split('.') yields.                                             *)
(***************************************************************************)
Scalar(s) == [scalar |-> s, ref |-> 0]

Ref(d) == [scalar |-> "", ref |-> d]

EmptyDict == [k \in {} |-> ""]

\* d[k] = v on a Python dict.
Put(d, k, v) == [x \in (DOMAIN d) \cup {k} |-> IF x = k THEN v ELSE d[x]]

\* The nested dicts: those of default_config, those json.load builds from
\* the file, and the one set() creates for a missing section.
DefaultVoice == 1
DefaultUi == 2
LoadedVoice == 3
LoadedUi == 4
CreatedSection == 5
DictIds == {DefaultVoice, DefaultUi, LoadedVoice, LoadedUi, CreatedSection}

\* _set_default_config: the literal assigned to self.default_config.
PredefinedRoot == ("logs_path" :> Scalar("logs")) @@ ("voice_settings" :> Ref(DefaultVoice)) @@ ("ui_settings" :> Ref(DefaultUi))

PredefinedVoice == ("speed" :> "1.0") @@ ("enabled" :> "True")

PredefinedUi == ("theme" :> "dark")

PredefinedHeap == [d \in DictIds |-> IF d = DefaultVoice THEN PredefinedVoice ELSE IF d = DefaultUi THEN PredefinedUi ELSE EmptyDict]

\* What a Python value is, with the nested dict it refers to read out of
\* the heap; found is FALSE for the default=None that get() returns.
NoValue == [found |-> FALSE, is_dict |-> FALSE, scalar |-> "", items |-> EmptyDict]

Deep(heap, v) == [found |-> TRUE, is_dict |-> v.ref # 0, scalar |-> v.scalar, items |-> IF v.ref # 0 THEN heap[v.ref] ELSE EmptyDict]

\* json.dump(self.config_data): the text written holds the nested dicts by
\* value.
Dumped(heap, root) == [k \in DOMAIN root |-> Deep(heap, root[k])]

\* _save_config; an I/O error is logged and leaves the file as it was.
SaveConfig(c, save_ok) == IF save_ok THEN [c EXCEPT !.file = Dumped(c.heap, c.config_data)] ELSE c

\* The settings files a ConfigManager may find: none, one that is not JSON,
\* one written by an earlier run (speed changed), one of an older version
\* that lacks the ui_settings section and the key voice_settings.enabled.
ConfigFiles == {"missing", "corrupt", "complete", "partial"}

LoadedRoot(file) == IF file = "complete" THEN ("logs_path" :> Scalar("logs")) @@ ("voice_settings" :> Ref(LoadedVoice)) @@ ("ui_settings" :> Ref(LoadedUi)) ELSE ("logs_path" :> Scalar("logs")) @@ ("voice_settings" :> Ref(LoadedVoice))

LoadedHeap(file) == [d \in DictIds |-> IF d = LoadedVoice THEN (IF file = "complete" THEN ("speed" :> "2.0") @@ ("enabled" :> "True") ELSE ("speed" :> "2.0")) ELSE IF d = LoadedUi /\ file = "complete" THEN ("theme" :> "dark") ELSE PredefinedHeap[d]]

\* _check_nested_params on one section: the keys the loaded dict lacks are
\* given the default value.
CheckNestedParams(default_params, config_params) == [k \in (DOMAIN default_params) \cup (DOMAIN config_params) |-> IF k \in DOMAIN config_params THEN config_params[k] ELSE default_params[k]]

\* _validate_config: a section the loaded configuration lacks is assigned
\* the object of default_config; a section it has is completed key by key.
ValidateConfig(c) ==
    LET default == c.default_config
        data == c.config_data
        both == {k \in DOMAIN default : k \in DOMAIN data /\ default[k].ref # 0 /\ data[k].ref # 0}
    IN [c EXCEPT !.config_data = [k \in (DOMAIN default) \cup (DOMAIN data) |-> IF k \in DOMAIN data THEN data[k] ELSE default[k]],
                 !.heap = [d \in DictIds |-> IF \E k \in both : data[k].ref = d THEN CheckNestedParams(c.heap[default[(CHOOSE k \in both : data[k].ref = d)].ref], c.heap[d]) ELSE c.heap[d]]]

\* __init__: _set_default_config, then _load_config.  Without a usable file
\* config_data is default_config.copy(), a new top-level dict holding the
\* same nested dicts, and is saved.
ConfigManagerOf(file) ==
    LET fresh == [config_data |-> PredefinedRoot, default_config |-> PredefinedRoot, heap |-> PredefinedHeap, file |-> EmptyDict]
    IN IF file \in {"missing", "corrupt"}
       THEN SaveConfig(fresh, TRUE)
       ELSE ValidateConfig([fresh EXCEPT !.config_data = LoadedRoot(file), !.heap = LoadedHeap(file), !.file = Dumped(LoadedHeap(file), LoadedRoot(file))])

\* What get(key) returns on the configuration _set_default_config defines.
PredefinedValue(key) == IF Len(key) = 1 THEN Deep(PredefinedHeap, PredefinedRoot[key[1]]) ELSE Deep(PredefinedHeap, Scalar(PredefinedHeap[PredefinedRoot[key[1]].ref][key[2]]))

\* get(key): the value under the key, the nested one for a dotted key, or
\* the default None.  A part looked up in a scalar is not found.
ConfigGet(c, key) ==
    IF Len(key) = 1
    THEN (IF key[1] \in DOMAIN c.config_data THEN Deep(c.heap, c.config_data[key[1]]) ELSE NoValue)
    ELSE IF key[1] \notin DOMAIN c.config_data \/ c.config_data[key[1]].ref = 0 THEN NoValue
    ELSE IF key[2] \in DOMAIN c.heap[c.config_data[key[1]].ref] THEN Deep(c.heap, Scalar(c.heap[c.config_data[key[1]].ref][key[2]]))
    ELSE NoValue

\* set(key, value): the configuration after the call and the value
\* returned.  A missing section of a dotted key is created; item assignment
\* into a scalar raises TypeError, which is caught and returns False.
ConfigSet(c, key, value) ==
    IF Len(key) = 1
    THEN [config |-> [c EXCEPT !.config_data = Put(c.config_data, key[1], value)], returned |-> TRUE]
    ELSE LET made == IF key[1] \in DOMAIN c.config_data THEN c ELSE [c EXCEPT !.config_data = Put(c.config_data, key[1], Ref(CreatedSection)), !.heap[CreatedSection] = EmptyDict]
             d == made.config_data[key[1]].ref
         IN IF d = 0
            THEN [config |-> made, returned |-> FALSE]
            ELSE [config |-> [made EXCEPT !.heap[d] = Put(made.heap[d], key[2], value.scalar)], returned |-> TRUE]

\* reset(key): None restores the whole configuration from
\* default_config.copy() and saves; a dotted key looks its value up in
\* default_config and hands it to set(); a top-level key is assigned the
\* value default_config holds and the file is saved.
ConfigReset(c, key, save_ok) ==
    IF key = <<>>
    THEN [config |-> SaveConfig([c EXCEPT !.config_data = c.default_config], save_ok), returned |-> save_ok]
    ELSE IF Len(key) = 2
    THEN (IF key[1] \notin DOMAIN c.default_config \/ c.default_config[key[1]].ref = 0 THEN [config |-> c, returned |-> FALSE]
          ELSE IF key[2] \notin DOMAIN c.heap[c.default_config[key[1]].ref] THEN [config |-> c, returned |-> FALSE]
          ELSE ConfigSet(c, key, Scalar(c.heap[c.default_config[key[1]].ref][key[2]])))
    ELSE IF key[1] \in DOMAIN c.default_config
    THEN [config |-> SaveConfig([c EXCEPT !.config_data = Put(c.config_data, key[1], c.default_config[key[1]])], save_ok), returned |-> save_ok]
    ELSE [config |-> c, returned |-> FALSE]

\* KnowledgeHarvester as constructed: not running, no thread started.
\* threads lists the harvesting threads started, each "testing" (at the
\* condition of its while loop), "working" (inside an iteration) or "exited".
HarvesterIdle == [is_running |-> FALSE, threads |-> <<>>]

\* MLEngine as constructed: no training in course.
TrainingIdle == [is_training |-> FALSE]

IdleServices ==
    /\ harvester = HarvesterIdle
    /\ training = TrainingIdle
    /\ config = ConfigManagerOf("missing")

\* The AISystem once main() has constructed it and start() has opened the
\* window, with every component that does not need the knowledge base up.
Started(knowledge_base) ==
    [phase |-> "running", config_manager |-> TRUE, text_processor |-> TRUE,
     voice_manager |-> TRUE, content_moderator |-> TRUE,
     knowledge_harvester |-> knowledge_base, store_usable |-> knowledge_base,
     is_running |-> TRUE, exit_code |-> "none"]

\* KnowledgeBase.add_fact.
AddFactUpTo(max_facts, input, db_ok) ==
    /\ Len(facts) < max_facts
    /\ IF db_ok
       THEN LET fact_id == Len(facts) + 1
                row == [id |-> fact_id, content |-> input.content,
                        category |-> input.category,
                        importance |-> input.importance, created_at |-> now,
                        last_accessed |-> <<>>, access_count |-> 0]
            IN /\ facts' = Append(facts, row)
               /\ semantic_vectors' = UpdateSemanticVector(facts', semantic_vectors)
               /\ last' = [op |-> "add_fact", input |-> input, ok |-> TRUE,
                           returned |-> fact_id, error |-> "none"]
       ELSE /\ UNCHANGED <<facts, semantic_vectors>>
            /\ last' = [op |-> "add_fact", input |-> input, ok |-> FALSE,
                        returned |-> NULL, error |-> "storage"]
    /\ UNCHANGED <<conversations, predefined_responses, model_ready,
                   knowledge_base_up, ml_engine_up, conversation_history,
                   environment>>

\* KnowledgeBase.add_fact, on a table kept within the bound of the model.
AddFact(input, db_ok) == AddFactUpTo(MaxFacts, input, db_ok)

\* KnowledgeBase.search_facts, called from the knowledge explorer with a
\* limit; the storage layer may fail in the search or in the update of the
\* access statistics.
SearchFacts(query) ==
    /\ \A i \in 1..Len(facts) : facts[i].access_count < MaxAccess
    /\ \E ranked \in {RankFacts(facts, query)}, limit \in Limits,
          failure \in {"none", "search", "stats"} :
          \E found \in {SearchResult(facts, ranked, limit, failure # "search")} :
             /\ facts' = AfterSearch(facts, found.results, failure # "stats")
             /\ last' = [op |-> "search_facts", query |-> query, limit |-> limit,
                         results |-> ReturnAfterStats(found.results,
                                                      failure # "stats"),
                         error |-> found.error,
                         vectorized |-> found.vectorized,
                         stats_error |-> found.results # <<>> /\ failure = "stats",
                         similarities |-> IF found.error = "none"
                                          THEN ranked.similarities ELSE <<>>]
    /\ UNCHANGED <<semantic_vectors, conversations, predefined_responses,
                   model_ready, knowledge_base_up, ml_engine_up,
                   conversation_history, environment>>


(***************************************************************************)
(* Responses.  A response is [text, facts, category]: a literal sentence  *)
(* has no facts; the reply composed from facts is the prefix sentence     *)
(* followed by the fact contents and, when the first fact has one, its    *)
(* category.  NoResponse is Python's None.                                *)
(***************************************************************************)
Literal(text) == [text |-> text, facts |-> <<>>, category |-> NULL]

NoResponse == Literal(NULL)

\* Python truthiness of a returned string-or-None.
Truthy(r) == r.facts # <<>> \/ r.text \notin {NULL, ""}

BasicGreetingReply == "Saludos, Su Majestad. ¿En qué puedo servirle hoy?"
FactsPrefix == "Su Majestad, basado en mi conocimiento: "
UnknownFallback ==
    "No comprendo completamente su solicitud, Su Majestad. ¿Podría proporcionarme más detalles?"
PredefinedErrorReply == "A sus órdenes, Su Majestad. ¿Cómo puedo servirle hoy?"
GenerationErrorReply ==
    "Lo siento, Su Majestad, estoy teniendo dificultades para procesar su solicitud en este momento."
GeneratedText == "(texto generado por el modelo)"
WaitingReply == "Estoy esperando su comando, Su Majestad."
EngineDownReply ==
    "Lo siento, Su Majestad, el motor de procesamiento no está disponible en este momento."
ProcessErrorReply ==
    "Lo siento, Su Majestad, he tenido un problema al procesar su solicitud."

\* The responses _load_predefined_responses writes when the file is missing.
DefaultResponses ==
    [greeting |-> <<"Saludos, Su Majestad. ¿En qué puedo servirle hoy?",
                    "A sus órdenes, Mi Rey. ¿Cómo puedo asistirle?",
                    "Es un honor atenderle, Su Majestad. Estoy a su disposición.">>,
     farewell |-> <<"Ha sido un honor servirle, Su Majestad. Estaré aquí cuando me necesite.",
                    "Que tenga un excelente día, Mi Rey. Quedo a su disposición.",
                    "Me retiro a su orden, Su Majestad. Regresaré cuando lo solicite.">>,
     unknown |-> <<"Lamento no comprender completamente su solicitud, Su Majestad. ¿Podría reformularla?",
                   "Mi Rey, me temo que necesito más información para procesar adecuadamente su petición.",
                   "Su Majestad, permítame solicitar una aclaración para poder servirle mejor.">>,
     acknowledgment |-> <<"Entendido, Su Majestad.",
                          "A sus órdenes, Mi Rey.",
                          "Comprendido perfectamente, Su Alteza.">>]

\* The predefined responses a customised predefined_responses.json may hold:
\* no farewell or acknowledgment key, an empty greeting list, an empty reply.
CustomResponses ==
    [keys |-> {"greeting", "unknown"},
     lists |-> [greeting |-> <<>>, farewell |-> <<>>, unknown |-> <<"">>,
                acknowledgment |-> <<>>]]

\* KnowledgeBase._load_predefined_responses: the default responses when the
\* file does not exist, the content of the file when it does, the empty
\* mapping when the file cannot be read.
LoadPredefinedResponses(file) ==
    CASE file = "missing" -> [keys |-> DOMAIN DefaultResponses, lists |-> DefaultResponses]
      [] file = "unreadable" -> [keys |-> {}, lists |-> DefaultResponses]
      [] file = "custom" -> CustomResponses

ResponseFiles == {"missing", "unreadable", "custom"}

\* "pattern in input_lower", at the granularity of words.
Contains(text, pattern) ==
    \E i \in 1..(Len(text) - Len(pattern) + 1) :
       SubSeq(text, i, i + Len(pattern) - 1) = pattern

BasicGreetings ==
    {<<"hola">>, <<"saludos">>, <<"buenos", "días">>, <<"buenas", "tardes">>,
     <<"buenas", "noches">>}

GreetingPatterns ==
    {<<"hola">>, <<"buenos", "días">>, <<"buenas", "tardes">>,
     <<"buenas", "noches">>, <<"saludos">>}

FarewellPatterns ==
    {<<"adiós">>, <<"hasta", "luego">>, <<"chao">>, <<"nos", "vemos">>,
     <<"hasta", "pronto">>}

ContainsAny(text, patterns) == \E pattern \in patterns : Contains(text, pattern)

\* random.choice(responses[key]): the possible outcomes, any element of the
\* list, or IndexError when the list is empty.
RandomChoice(responses, key) ==
    LET list == responses.lists[key]
    IN IF list = <<>>
       THEN {[raised |-> TRUE, value |-> NoResponse]}
       ELSE {[raised |-> FALSE, value |-> Literal(list[i])] : i \in 1..Len(list)}

Reverse(s) == [i \in 1..Len(s) |-> s[Len(s) + 1 - i]] \o <<>>

\* np.argmax: the first index of the largest element.
ArgMax(xs) ==
    CHOOSE i \in 1..Len(xs) :
       /\ \A j \in 1..Len(xs) : xs[j] <= xs[i]
       /\ \A j \in 1..(i - 1) : xs[j] < xs[i]

\* A history match without the similarity threshold.
HistoryMatchAnySimilarity(convs, input_text) ==
    LET rows == Slice(Reverse(convs), HistoryLimit)
        user_inputs == [i \in 1..Len(rows) |-> rows[i].user_input] \o <<>>
    IN IF rows = <<>> \/ Len(user_inputs) < HistoryMinTurns
       THEN [raised |-> FALSE, value |-> NoResponse, error |-> "none"]
       ELSE LET fit == FitTransform(user_inputs \o <<input_text>>, FALSE, 1, 100)
            IN IF fit.error # "none"
               THEN [raised |-> FALSE, value |-> NoResponse, error |-> fit.error]
               ELSE [raised |-> FALSE,
                     value |-> Literal(rows[ArgMax(CosineSimilarities(fit.matrix))]
                                          .system_response),
                     error |-> "none"]

(***************************************************************************)
(* KnowledgeBase._get_semantic_response.  HistoryMatch is what it computes *)
(* from the rows it read (most recent first, at most 100): nothing with   *)
(* fewer than five rows, otherwise the stored response of the row whose   *)
(* user input is most similar to the query, if that similarity exceeds    *)
(* 0.6; an error of the vectorizer is logged and gives None.  A storage   *)
(* error gives None as well.                                               *)
(***************************************************************************)
HistoryMatch(convs, input_text) ==
    LET rows == Slice(Reverse(convs), HistoryLimit)
        user_inputs == [i \in 1..Len(rows) |-> rows[i].user_input] \o <<>>
    IN IF rows = <<>> \/ Len(user_inputs) < HistoryMinTurns
       THEN [raised |-> FALSE, value |-> NoResponse, error |-> "none"]
       ELSE LET fit == FitTransform(user_inputs \o <<input_text>>, FALSE, 1, 100)
            IN IF fit.error # "none"
               THEN [raised |-> FALSE, value |-> NoResponse, error |-> fit.error]
               ELSE LET sims == CosineSimilarities(fit.matrix)
                        max_similarity_idx == ArgMax(sims)
                    IN IF sims[max_similarity_idx] > HistoryThreshold
                       THEN [raised |-> FALSE,
                             value |-> Literal(rows[max_similarity_idx].system_response),
                             error |-> "none"]
                       ELSE [raised |-> FALSE, value |-> NoResponse, error |-> "none"]

\* A history tier that lets its errors out.
GetSemanticResponseRaising(match, db_ok) ==
    IF ~db_ok
    THEN [raised |-> TRUE, value |-> NoResponse, error |-> "storage"]
    ELSE [match EXCEPT !.raised = (match.error # "none")]

GetSemanticResponse(match, db_ok) ==
    IF ~db_ok
    THEN [raised |-> FALSE, value |-> NoResponse, error |-> "storage"]
    ELSE match

(***************************************************************************)
(* KnowledgeBase.get_predefined_response: greeting keywords, farewell     *)
(* keywords, the conversation history, the unknown responses.  The result *)
(* is the set of possible outcomes of the random choice; an outcome       *)
(* carries the tier that answered and the tiers tried, in order.          *)
(***************************************************************************)
Answer(choice, tier, trace, semantic) ==
    [raised |-> choice.raised, value |-> choice.value,
     tier |-> IF choice.raised THEN "error" ELSE tier,
     trace |-> trace, history_error |-> semantic.error]

Untried == [raised |-> FALSE, value |-> NoResponse, error |-> "none"]

\* A last resort that answers with an acknowledgment.
UnknownResponseAcknowledging(responses) == RandomChoice(responses, "acknowledgment")

\* The last resort: a random unknown response, or the built-in sentence when
\* the responses have no unknown key.
UnknownResponse(responses) ==
    IF "unknown" \in responses.keys
    THEN RandomChoice(responses, "unknown")
    ELSE {[raised |-> FALSE, value |-> Literal(UnknownFallback)]}

GetPredefinedResponse(responses, input_text, semantic) ==
    LET input_lower == Lower(input_text)
    IN IF ContainsAny(input_lower, GreetingPatterns) /\ "greeting" \in responses.keys
       THEN {Answer(choice, "pattern", <<"pattern">>, Untried) :
                choice \in RandomChoice(responses, "greeting")}
       ELSE IF ContainsAny(input_lower, FarewellPatterns) /\ "farewell" \in responses.keys
       THEN {Answer(choice, "pattern", <<"pattern">>, Untried) :
                choice \in RandomChoice(responses, "farewell")}
       ELSE IF semantic.raised \/ Truthy(semantic.value)
       THEN {Answer(semantic, "history", <<"pattern", "history">>, semantic)}
       ELSE {Answer(choice, "unknown", <<"pattern", "history", "unknown">>, semantic) :
                choice \in UnknownResponse(responses)}

(***************************************************************************)
(* MLEngine.generate_response.  found is the result of                    *)
(* search_facts(input, limit=3), predefined the possible results of       *)
(* get_predefined_response; ready is whether a trained model and its      *)
(* tokenizer are loaded.  A trained model either produces a text of three *)
(* words or more, or the engine falls back on the predefined response     *)
(* (no tokens in the input, an error in preprocessing or prediction, a    *)
(* text too short).  The result is the set of possible outcomes; searched *)
(* tells whether search_facts was called.                                  *)
(***************************************************************************)
ComposeFacts(results) ==
    [text |-> FactsPrefix,
     facts |-> [k \in 1..Len(results) |-> results[k].content] \o <<>>,
     category |-> results[1].category]

Resolved(value, tier, trace, searched, history_error) ==
    [raised |-> FALSE, value |-> value, tier |-> tier, trace |-> trace,
     searched |-> searched, history_error |-> history_error]

\* The fallback on get_predefined_response inside generate_response: its
\* exception is answered with the given sentence.
Fallback(predefined, tried, error_reply) ==
    {IF p.raised
     THEN Resolved(Literal(error_reply), "error", tried \o p.trace, TRUE,
                   p.history_error)
     ELSE Resolved(p.value, p.tier, tried \o p.trace, TRUE, p.history_error) :
        p \in predefined}

GenerateResponse(input_text, found, predefined, ready) ==
    LET original_text == Lower(input_text)
    IN IF original_text \in BasicGreetings
       THEN {Resolved(Literal(BasicGreetingReply), "greeting", <<"greeting">>,
                      FALSE, "none")}
       ELSE IF found.results # <<>>
       THEN {Resolved(ComposeFacts(found.results), "fact", <<"greeting", "fact">>,
                      TRUE, "none")}
       ELSE IF ~ready
       THEN Fallback(predefined, <<"greeting", "fact">>, PredefinedErrorReply)
       ELSE {Resolved(Literal(GeneratedText), "generate",
                      <<"greeting", "fact", "generate">>, TRUE, "none")}
              \cup Fallback(predefined, <<"greeting", "fact", "generate">>,
                            GenerationErrorReply)

(***************************************************************************)
(* The fact store on its own: facts are added and searched; the           *)
(* conversation table is empty and no resolution call is made.            *)
(***************************************************************************)
Init ==
    /\ facts = <<>>
    /\ semantic_vectors = <<>>
    /\ conversations = <<>>
    /\ predefined_responses = LoadPredefinedResponses("missing")
    /\ model_ready = FALSE
    /\ knowledge_base_up = TRUE
    /\ ml_engine_up = TRUE
    /\ conversation_history = <<>>
    /\ last = Idle
    /\ now = 0
    /\ calls = <<>>
    /\ system = Started(knowledge_base_up)
    /\ IdleServices

Next ==
    \/ \E input \in FactInputs, db_ok \in BOOLEAN : AddFact(input, db_ok)
    \/ \E query \in SearchQueries : SearchFacts(query)

Spec == Init /\ [][Next]_vars

(***************************************************************************)
(* AISystem.process_input.  The input is a string (a text) or something   *)
(* else; an empty or non-string input is answered at once.  Otherwise the *)
(* input is appended to the conversation history, the response is         *)
(* resolved by the engine, or by the knowledge base alone when there is   *)
(* no engine, appended to the history and spoken.  Any exception is       *)
(* answered with an apology.                                               *)
(***************************************************************************)
QHola == <<"Hola">>
QHolaAmigo == <<"hola", "amigo">>
QAdios == <<"adiós">>
QChiste == <<"cuenta", "chiste">>
QY == <<"y">>

UserInputs ==
    {[is_str |-> TRUE, text |-> t] :
        t \in {QHola, QHolaAmigo, QAdios, QChiste, QY, TCapitalFrancia,
               TNonsense, TEmpty}}
      \cup {[is_str |-> FALSE, text |-> TEmpty]}

\* The branch of process_input without an engine: the knowledge base answers,
\* no fact is searched, and its exception reaches process_input.
WithoutEngine(predefined) ==
    {[raised |-> p.raised, value |-> p.value, tier |-> p.tier,
      trace |-> p.trace, searched |-> FALSE,
      history_error |-> p.history_error] : p \in predefined}

Failures == {"none", "search", "stats", "history"}

ProcessInput(user_input) ==
    /\ Len(conversation_history) < 2 * MaxTurns
    /\ IF ~user_input.is_str \/ user_input.text = <<>>
       THEN /\ last' = [op |-> "process_input", input |-> user_input,
                        response |-> Literal(WaitingReply), raised |-> FALSE,
                        resolved |-> Resolved(NoResponse, "rejected", <<>>, FALSE, "none"),
                        search |-> [results |-> <<>>, error |-> "none",
                                        vectorized |-> FALSE],
                        similarities |-> <<>>]
            /\ UNCHANGED <<facts, conversation_history>>
       ELSE IF ~ml_engine_up /\ ~knowledge_base_up
       THEN \E speak_ok \in BOOLEAN :
              /\ last' = [op |-> "process_input", input |-> user_input,
                          response |-> IF speak_ok THEN Literal(EngineDownReply)
                                       ELSE Literal(ProcessErrorReply),
                          raised |-> FALSE,
                          resolved |-> Resolved(Literal(EngineDownReply),
                                                "unavailable", <<>>, FALSE, "none"),
                          search |-> [results |-> <<>>, error |-> "none",
                                        vectorized |-> FALSE],
                          similarities |-> <<>>]
              /\ conversation_history' =
                    conversation_history
                      \o <<[role |-> "user", content |-> user_input.text],
                           [role |-> "assistant", content |-> Literal(EngineDownReply)]>>
              /\ UNCHANGED facts
       ELSE \E ranked \in {RankFacts(facts, user_input.text)},
               match \in {HistoryMatch(conversations, user_input.text)},
               failure \in Failures, speak_ok \in BOOLEAN :
              \E found \in {SearchResult(facts, ranked, ResolverLimit,
                                         failure # "search")},
                 predefined \in {GetPredefinedResponse(
                                    predefined_responses, user_input.text,
                                    GetSemanticResponse(match, failure # "history"))} :
                \E resolved \in IF ml_engine_up
                                THEN GenerateResponse(user_input.text, found,
                                                      predefined, model_ready)
                                ELSE WithoutEngine(predefined) :
                   LET user_entry == [role |-> "user", content |-> user_input.text]
                       reply_entry == [role |-> "assistant", content |-> resolved.value]
                       response == IF resolved.raised \/ ~speak_ok
                                   THEN Literal(ProcessErrorReply)
                                   ELSE resolved.value
                   IN /\ facts' = IF resolved.searched
                                  THEN AfterSearch(facts, found.results,
                                                   failure # "stats")
                                  ELSE facts
                      /\ conversation_history' =
                            IF resolved.raised
                            THEN Append(conversation_history, user_entry)
                            ELSE conversation_history \o <<user_entry, reply_entry>>
                      /\ last' = [op |-> "process_input", input |-> user_input,
                                  response |-> response, raised |-> FALSE,
                                  resolved |-> resolved,
                                  search |-> IF resolved.searched THEN found
                                             ELSE [results |-> <<>>, error |-> "none",
                                                   vectorized |-> FALSE],
                                  similarities |->
                                     IF resolved.searched /\ found.error = "none"
                                     THEN ranked.similarities ELSE <<>>]
    /\ UNCHANGED <<semantic_vectors, conversations, predefined_responses,
                   model_ready, knowledge_base_up, ml_engine_up, environment>>

(***************************************************************************)
(* Resolution calls against a knowledge base opened on an existing        *)
(* database: the facts and conversations tables hold what earlier runs    *)
(* left there, the predefined responses are loaded from the file.  The    *)
(* engine exists only if the knowledge base does; without a knowledge     *)
(* base there is nothing stored and nothing loaded.                       *)
(***************************************************************************)
RECURSIVE StoreOf(_)
StoreOf(inputs) ==
    IF inputs = <<>> THEN <<>>
    ELSE LET before == StoreOf(SubSeq(inputs, 1, Len(inputs) - 1))
             input == inputs[Len(inputs)]
         IN Append(before,
                   [id |-> Len(inputs), content |-> input.content,
                    category |-> input.category,
                    importance |-> input.importance, created_at |-> 0,
                    last_accessed |-> <<>>, access_count |-> 0])

FParisHi == [content |-> TParis, category |-> "geo", importance |-> 9]
FParisLo == [content |-> TParis, category |-> "geo", importance |-> 3]
FMadrid == [content |-> TMadrid, category |-> "geo", importance |-> 7]
FCapital == [content |-> TCapital, category |-> NULL, importance |-> 1]

StoredFacts ==
    {StoreOf(<<>>), StoreOf(<<FParisHi>>), StoreOf(<<FParisLo, FMadrid>>),
     StoreOf(<<FCapital, FMadrid, FParisHi>>)}

Turn(user_input, system_response) ==
    [user_input |-> user_input, system_response |-> system_response]

FiveTurns ==
    <<Turn(QChiste, "Un chiste a su orden, Su Majestad."),
      Turn(QY, "¿Sí, Su Majestad?"),
      Turn(<<"otro", "chiste">>, "Otro chiste, Su Majestad."),
      Turn(<<"?">>, "¿Su Majestad?"),
      Turn(TNonsense, "")>>

NoTokenTurns ==
    <<Turn(QY, "¿Sí, Su Majestad?"), Turn(<<"?">>, "¿Su Majestad?"),
      Turn(QY, "¿Sí, Su Majestad?"), Turn(<<"?">>, "¿Su Majestad?"),
      Turn(<<"o">>, "¿Su Majestad?")>>

StoredConversations ==
    {<<>>, SubSeq(FiveTurns, 1, 4), FiveTurns, NoTokenTurns}

InitResolve ==
    /\ knowledge_base_up \in BOOLEAN
    /\ facts \in IF knowledge_base_up THEN StoredFacts ELSE {<<>>}
    /\ semantic_vectors = <<>>
    /\ conversations \in IF knowledge_base_up THEN StoredConversations ELSE {<<>>}
    /\ predefined_responses \in
          IF knowledge_base_up
          THEN {LoadPredefinedResponses(file) : file \in ResponseFiles}
          ELSE {LoadPredefinedResponses("unreadable")}
    /\ ml_engine_up \in {FALSE, knowledge_base_up}
    /\ model_ready \in {FALSE, ml_engine_up}
    /\ conversation_history = <<>>
    /\ last = Idle
    /\ now = 0
    /\ calls = <<>>
    /\ system = Started(knowledge_base_up)
    /\ IdleServices

NextResolve == \E user_input \in UserInputs : ProcessInput(user_input)

SpecResolve == InitResolve /\ [][NextResolve]_vars

(***************************************************************************)
(* The other operations of the knowledge base on its tables.  SpecStore   *)
(* is the fact store in use: time passes, facts are added, searched and   *)
(* listed by category.  SpecTables is every operation on the tables, with *)
(* the storage layer failing at will: conversations are recorded and the  *)
(* training data are read as well.                                         *)
(***************************************************************************)
MaxTime == 1

\* The clock of the database advances.
Tick ==
    /\ now < MaxTime
    /\ now' = now + 1
    /\ UNCHANGED <<facts, semantic_vectors, conversations, predefined_responses,
                   model_ready, knowledge_base_up, ml_engine_up,
                   conversation_history, last, calls, system, services>>

Categories == {"geo", "historia", NULL}

\* SELECT id, content, importance FROM facts WHERE category = ? ORDER BY
\* importance DESC: a NULL category matches no row; rows of equal importance
\* are listed in the order of their ids.
CategoryRows(fs, category) ==
    LET matching == SelectSeq(fs, LAMBDA f : category # NULL /\ f.category = category)
        sorted == SortDesc([i \in 1..Len(matching) |->
                              [fact_id |-> matching[i].id,
                               score |-> matching[i].importance]] \o <<>>)
    IN [k \in 1..Len(sorted) |->
          [id |-> sorted[k].fact_id,
           content |-> RowOf(fs, sorted[k].fact_id).content,
           importance |-> RowOf(fs, sorted[k].fact_id).importance]] \o <<>>

\* KnowledgeBase.get_facts_by_category.
GetFactsByCategory(category) ==
    /\ \A i \in 1..Len(facts) : facts[i].access_count < MaxAccess
    /\ \E failure \in {"none", "search", "stats"} :
          LET found == IF failure = "search" THEN <<>>
                       ELSE CategoryRows(facts, category)
          IN /\ facts' = AfterSearch(facts, found, failure # "stats")
             /\ last' = [op |-> "get_facts_by_category", category |-> category,
                         results |-> ReturnAfterStats(found, failure # "stats"),
                         error |-> IF failure = "search" THEN "storage" ELSE "none",
                         stats_error |-> found # <<>> /\ failure = "stats"]
    /\ UNCHANGED <<semantic_vectors, conversations, predefined_responses,
                   model_ready, knowledge_base_up, ml_engine_up,
                   conversation_history, environment>>

\* add_conversation returning nothing whenever any of its steps failed.
ConversationResultStrict(conversation_id, failure) ==
    [ok |-> failure = "none",
     returned |-> IF failure = "none" THEN conversation_id ELSE 0]

\* What add_conversation returns: the id of the row unless the INSERT or its
\* commit raised (returned is read only when ok).  _analyze_user_linguistics
\* catches and logs its own errors, so a failure there changes nothing.
ConversationResult(conversation_id, failure) ==
    [ok |-> failure # "insert",
     returned |-> IF failure # "insert" THEN conversation_id ELSE 0]

\* KnowledgeBase.add_conversation: the row is inserted and committed, then
\* the linguistic analysis runs.
AddConversation(user_input, system_response, failure) ==
    /\ Len(conversations) < MaxTurns
    /\ conversations' = IF failure = "insert" THEN conversations
                        ELSE Append(conversations, Turn(user_input, system_response))
    /\ \E result \in {ConversationResult(Len(conversations) + 1, failure)} :
          last' = [op |-> "add_conversation", ok |-> result.ok,
                   returned |-> result.returned,
                   error |-> IF failure = "insert" THEN "storage" ELSE "none",
                   linguistics_error |-> failure = "linguistics"]
    /\ UNCHANGED <<facts, semantic_vectors, predefined_responses, model_ready,
                   knowledge_base_up, ml_engine_up, conversation_history,
                   environment>>

RECURSIVE Flatten(_)
Flatten(convs) ==
    IF convs = <<>> THEN <<>>
    ELSE <<Head(convs).user_input, <<Head(convs).system_response>>>>
            \o Flatten(Tail(convs))

\* KnowledgeBase.get_training_data: the fact contents, then the user input
\* and the system response of every conversation.
GetTrainingData(db_ok) ==
    /\ last' = [op |-> "get_training_data",
                results |-> IF db_ok THEN FactContents(facts) \o Flatten(conversations)
                            ELSE <<>>,
                error |-> IF db_ok THEN "none" ELSE "storage"]
    /\ UNCHANGED <<facts, semantic_vectors, conversations, predefined_responses,
                   model_ready, knowledge_base_up, ml_engine_up,
                   conversation_history, environment>>

FParisMid == [content |-> TParis, category |-> "geo", importance |-> 7]
FNonsense == [content |-> TNonsense, category |-> "historia", importance |-> 7]

\* A store whose facts have the same importance.
EqualImportanceStore == StoreOf(<<FNonsense, FMadrid, FParisMid>>)

StoreQueries == {TCapitalFrancia, TNonsense, TEmpty}

InitStore ==
    /\ facts \in {<<>>, EqualImportanceStore}
    /\ semantic_vectors = <<>>
    /\ conversations = <<>>
    /\ predefined_responses = LoadPredefinedResponses("missing")
    /\ model_ready = FALSE
    /\ knowledge_base_up = TRUE
    /\ ml_engine_up = TRUE
    /\ conversation_history = <<>>
    /\ last = Idle
    /\ now = 0
    /\ calls = <<>>
    /\ system = Started(knowledge_base_up)
    /\ IdleServices

NextStore ==
    \/ Tick
    \/ \E db_ok \in BOOLEAN : AddFact(FMadrid, db_ok)
    \/ \E query \in StoreQueries : SearchFacts(query)
    \/ \E category \in Categories : GetFactsByCategory(category)

SpecStore == InitStore /\ [][NextStore]_vars

InitTables ==
    /\ facts \in {<<>>, StoreOf(<<FParisLo, FMadrid>>)}
    /\ semantic_vectors = <<>>
    /\ conversations = <<>>
    /\ predefined_responses = LoadPredefinedResponses("missing")
    /\ model_ready = FALSE
    /\ knowledge_base_up = TRUE
    /\ ml_engine_up = TRUE
    /\ conversation_history = <<>>
    /\ last = Idle
    /\ now = 0
    /\ calls = <<>>
    /\ system = Started(knowledge_base_up)
    /\ IdleServices

NextTables ==
    \/ \E db_ok \in BOOLEAN : AddFact(FMadrid, db_ok)
    \/ \E failure \in {"none", "insert", "linguistics"} :
          AddConversation(QChiste, "Un chiste a su orden, Su Majestad.", failure)
    \/ \E query \in {TCapitalFrancia, TEmpty} : SearchFacts(query)
    \/ \E category \in Categories : GetFactsByCategory(category)
    \/ \E db_ok \in BOOLEAN : GetTrainingData(db_ok)

SpecTables == InitTables /\ [][NextTables]_vars

(***************************************************************************)
(* Concurrent reads of the fact store (the GUI worker thread, the         *)
(* harvester thread and the explorer all call the knowledge base).  A     *)
(* read is two transactions on two connections: the SELECT, after which   *)
(* the results are computed, and the UPDATE of the access statistics,     *)
(* which the database applies atomically or, when it fails, not at all.   *)
(* Other calls may run between the two.  calls lists the calls begun,     *)
(* each with the results it computed, whether it has returned and         *)
(* whether its update was applied; overlapped tells that another call     *)
(* was between its transactions when this one read.                       *)
(***************************************************************************)
MaxCalls == 2

Updating(c) == calls[c].phase = "updating"

Call(op, results) ==
    [op |-> op, results |-> results,
     phase |-> IF results = <<>> THEN "returned" ELSE "updating",
     updated |-> FALSE,
     overlapped |-> \E c \in 1..Len(calls) : Updating(c)]

\* search_facts up to the point where the results are built.
BeginSearch(query, limit, db_ok) ==
    /\ Len(calls) < MaxCalls
    /\ \E ranked \in {RankFacts(facts, query)} :
          calls' = Append(calls,
                          Call("search_facts",
                               SearchResult(facts, ranked, limit, db_ok).results))
    /\ UNCHANGED <<facts, semantic_vectors, conversations, predefined_responses,
                   model_ready, knowledge_base_up, ml_engine_up,
                   conversation_history, last, now, system, services>>

\* get_facts_by_category up to the point where the rows are read.
BeginCategory(category, db_ok) ==
    /\ Len(calls) < MaxCalls
    /\ calls' = Append(calls,
                       Call("get_facts_by_category",
                            IF db_ok THEN CategoryRows(facts, category) ELSE <<>>))
    /\ UNCHANGED <<facts, semantic_vectors, conversations, predefined_responses,
                   model_ready, knowledge_base_up, ml_engine_up,
                   conversation_history, last, now, system, services>>

\* The rest of either read: _update_access_stats, then the return.
FinishRead(c, stats_ok) ==
    /\ Updating(c)
    /\ facts' = AfterSearch(facts, calls[c].results, stats_ok)
    /\ calls' = [calls EXCEPT ![c].phase = "returned", ![c].updated = stats_ok]
    /\ last' = [op |-> calls[c].op,
                results |-> ReturnAfterStats(calls[c].results, stats_ok),
                stats_error |-> ~stats_ok]
    /\ UNCHANGED <<semantic_vectors, conversations, predefined_responses,
                   model_ready, knowledge_base_up, ml_engine_up,
                   conversation_history, now, system, services>>

InitConcurrent ==
    /\ facts \in {StoreOf(<<FParisLo, FMadrid>>), EqualImportanceStore}
    /\ semantic_vectors = <<>>
    /\ conversations = <<>>
    /\ predefined_responses = LoadPredefinedResponses("missing")
    /\ model_ready = FALSE
    /\ knowledge_base_up = TRUE
    /\ ml_engine_up = TRUE
    /\ conversation_history = <<>>
    /\ last = Idle
    /\ now = 0
    /\ calls = <<>>
    /\ system = Started(knowledge_base_up)
    /\ IdleServices

NextConcurrent ==
    \/ \E query \in {TCapitalFrancia, TEmpty}, limit \in Limits, db_ok \in BOOLEAN :
          BeginSearch(query, limit, db_ok)
    \/ \E category \in Categories, db_ok \in BOOLEAN : BeginCategory(category, db_ok)
    \/ \E c \in 1..Len(calls), stats_ok \in BOOLEAN : FinishRead(c, stats_ok)

SpecConcurrent == InitConcurrent /\ [][NextConcurrent]_vars

(***************************************************************************)
(* add_fact with arbitrary arguments.  The method passes content,         *)
(* category and importance to the INSERT as they come: the only check is  *)
(* the table's NOT NULL on content, which the empty string satisfies, and *)
(* the importance column is a REAL with no CHECK.  Importance is in       *)
(* tenths, so 15 is 1.5 and -1 is -0.1.                                    *)
(***************************************************************************)
FEmpty == [content |-> TEmpty, category |-> "geo", importance |-> 5]
FParisOver == [content |-> TParis, category |-> "geo", importance |-> 15]
FCapitalUnder == [content |-> TCapital, category |-> NULL, importance |-> -1]

AnyFactInputs == {FEmpty, FParisOver, FCapitalUnder, FMadrid}

InitArguments ==
    /\ facts = <<>>
    /\ semantic_vectors = <<>>
    /\ conversations = <<>>
    /\ predefined_responses = LoadPredefinedResponses("missing")
    /\ model_ready = FALSE
    /\ knowledge_base_up = TRUE
    /\ ml_engine_up = TRUE
    /\ conversation_history = <<>>
    /\ last = Idle
    /\ now = 0
    /\ calls = <<>>
    /\ system = Started(knowledge_base_up)
    /\ IdleServices

NextArguments ==
    \/ \E input \in AnyFactInputs, db_ok \in BOOLEAN : AddFact(input, db_ok)
    \/ \E query \in {TCapitalFrancia, TEmpty} : SearchFacts(query)
    \/ \E category \in Categories : GetFactsByCategory(category)

SpecArguments == InitArguments /\ [][NextArguments]_vars

(***************************************************************************)
(* The start of the system: main() constructs the AISystem, whose          *)
(* constructor ends with _init_components, and calls start().  Each        *)
(* component is constructed in its own try/except, which logs the error    *)
(* and leaves the attribute None.  The KnowledgeBase constructor raises    *)
(* when the directory cannot be made; _initialize_database catches and     *)
(* logs every error of opening the database and creating the tables, and   *)
(* the constructor goes on to its end.                                     *)
(***************************************************************************)
NotConstructed ==
    [phase |-> "new", config_manager |-> FALSE, text_processor |-> FALSE,
     voice_manager |-> FALSE, content_moderator |-> FALSE,
     knowledge_harvester |-> FALSE, store_usable |-> FALSE,
     is_running |-> FALSE, exit_code |-> "none"]

\* How the construction of the KnowledgeBase can end: os.makedirs raises,
\* the database cannot be opened or set up, or all is well.
StoreOutcomes == {"raises", "unusable", "usable"}

\* AISystem._init_components.
InitComponents(config_ok, store, text_ok, voice_ok, moderator_ok, ml_ok, harvester_ok) ==
    /\ system.phase = "new"
    /\ knowledge_base_up' = (store # "raises")
    /\ ml_engine_up' = (knowledge_base_up' /\ ml_ok)
    /\ system' = [system EXCEPT
                     !.phase = "initialized",
                     !.config_manager = config_ok,
                     !.store_usable = (store = "usable"),
                     !.text_processor = text_ok,
                     !.voice_manager = voice_ok,
                     !.content_moderator = moderator_ok,
                     !.knowledge_harvester =
                         (knowledge_base_up' /\ text_ok /\ harvester_ok)]
    /\ UNCHANGED <<facts, semantic_vectors, conversations, predefined_responses,
                   model_ready, conversation_history, last, now, calls, services>>

\* AISystem.shutdown: nothing to do unless the system is running.
Stopped(sys, exit_code) ==
    [sys EXCEPT !.phase = "stopped", !.is_running = FALSE, !.exit_code = exit_code]

\* AISystem.start: the threads of the ML engine and of the voice manager are
\* started when the components exist, is_running is set and the window is
\* opened; an error on the way shuts the system down and returns 1.
Start(ml_start_ok, voice_start_ok, gui_ok) ==
    /\ system.phase = "initialized"
    /\ ~system.is_running
    /\ system' =
          IF \/ ml_engine_up /\ ~ml_start_ok
             \/ system.voice_manager /\ ~voice_start_ok
             \/ ~gui_ok
          THEN Stopped(system, "1")
          ELSE [system EXCEPT !.phase = "running", !.is_running = TRUE]
    /\ UNCHANGED <<facts, semantic_vectors, conversations, predefined_responses,
                   model_ready, knowledge_base_up, ml_engine_up,
                   conversation_history, last, now, calls, services>>

\* The window is closed: closeEvent calls shutdown and run() returns.
Shutdown ==
    /\ system.phase = "running"
    /\ system.is_running
    /\ system' = Stopped(system, "0")
    /\ UNCHANGED <<facts, semantic_vectors, conversations, predefined_responses,
                   model_ready, knowledge_base_up, ml_engine_up,
                   conversation_history, last, now, calls, services>>

InitStart ==
    /\ facts = <<>>
    /\ semantic_vectors = <<>>
    /\ conversations = <<>>
    /\ predefined_responses = LoadPredefinedResponses("missing")
    /\ model_ready = FALSE
    /\ knowledge_base_up = FALSE
    /\ ml_engine_up = FALSE
    /\ conversation_history = <<>>
    /\ last = Idle
    /\ now = 0
    /\ calls = <<>>
    /\ system = NotConstructed
    /\ IdleServices

NextStart ==
    \/ \E config_ok, text_ok, voice_ok, moderator_ok, ml_ok, harvester_ok \in BOOLEAN,
          store \in StoreOutcomes :
          InitComponents(config_ok, store, text_ok, voice_ok, moderator_ok, ml_ok,
                         harvester_ok)
    \/ \E ml_start_ok, voice_start_ok, gui_ok \in BOOLEAN :
          Start(ml_start_ok, voice_start_ok, gui_ok)
    \/ Shutdown

SpecStart == InitStart /\ [][NextStart]_vars

(***************************************************************************)
(* Calls of add_fact and search_facts from several threads (the worker    *)
(* thread of the window, the harvester thread) on the one KnowledgeBase   *)
(* object.  Every call opens its own database connection.  The INSERT of  *)
(* add_fact takes the write lock of the database, which it holds until    *)
(* its commit or rollback; a second INSERT meanwhile fails once its wait  *)
(* runs out.  Readers see committed rows only.  self.vectorizer is shared *)
(* and unguarded: fit_transform fits the tf-idf weights into the object   *)
(* and then transforms with the weights the object holds at that moment,  *)
(* so a fit by another thread between the two steps replaces them.  A     *)
(* call record keeps what the call has in its local variables.            *)
(***************************************************************************)
\* The n-grams of the documents that survive min_df and max_df, as a set.
KeptFeatures(docs, strip_accents, min_df, max_df_pct) ==
    LET n == Len(docs)
        toks == [i \in 1..n |-> Tokenize(docs[i], strip_accents)] \o <<>>
        DF(f) == Cardinality({i \in 1..n : TermCount(f, toks[i]) > 0})
    IN {f \in UNION {Features(toks[i]) : i \in 1..n} :
          DF(f) * 100 <= max_df_pct * n /\ DF(f) >= min_df}

\* The tokens of the model's texts in alphabetical order.
Alphabet == <<"capital", "francia", "madrid", "paris", "xyz">>

WordRank(w) == CHOOSE k \in 1..Len(Alphabet) : Alphabet[k] = w

\* The order of the feature names "a" and "a b" as strings.
FeatureBefore(f, g) ==
    \/ WordRank(f[1]) < WordRank(g[1])
    \/ /\ f[1] = g[1]
       /\ Len(g) = 2
       /\ Len(f) = 1 \/ WordRank(f[2]) < WordRank(g[2])

\* vocabulary_: the kept features in sorted order, which gives each its column.
RECURSIVE SortedFeatures(_)
SortedFeatures(S) ==
    IF S = {} THEN <<>>
    ELSE LET first == CHOOSE f \in S : \A g \in S \ {f} : FeatureBefore(f, g)
         IN <<first>> \o SortedFeatures(S \ {first})

\* The idf weights a fit on the documents leaves in the vectorizer, by column.
IdfOf(docs, strip_accents, min_df, max_df_pct) ==
    LET n == Len(docs)
        toks == [i \in 1..n |-> Tokenize(docs[i], strip_accents)] \o <<>>
        kept == SortedFeatures(KeptFeatures(docs, strip_accents, min_df, max_df_pct))
    IN [k \in 1..Len(kept) |->
          Idf100(n, Cardinality({i \in 1..n : TermCount(kept[k], toks[i]) > 0}))]
       \o <<>>

\* The transform step of fit_transform: the counts of the call's own
\* documents over its own vocabulary, weighted by the idf the vectorizer
\* holds.  A different number of columns is a ValueError.
TransformWith(docs, idf, strip_accents, min_df, max_df_pct) ==
    LET n == Len(docs)
        toks == [i \in 1..n |-> Tokenize(docs[i], strip_accents)] \o <<>>
        kept == SortedFeatures(KeptFeatures(docs, strip_accents, min_df, max_df_pct))
    IN IF Len(kept) # Len(idf)
       THEN [error |-> "n_features mismatch", matrix |-> <<>>]
       ELSE [error |-> "none",
             matrix |-> [i \in 1..n |->
                           ([k \in 1..Len(kept) |->
                               TermCount(kept[k], toks[i]) * idf[k]] \o <<>>)]
                          \o <<>>]

\* The number of fits of the shared vectorizer so far.
FitCount ==
    IF calls = <<>> THEN 0
    ELSE CHOOSE k \in 0..Len(calls) :
            /\ \A c \in 1..Len(calls) : calls[c].fitted_at <= k
            /\ k = 0 \/ \E c \in 1..Len(calls) : calls[c].fitted_at = k

\* The documents the shared vectorizer was last fitted on.
LastFitted ==
    calls[CHOOSE c \in 1..Len(calls) : calls[c].fitted_at = FitCount].docs

\* An add_fact call holds the write lock between its INSERT and its commit.
WriteUnlocked == FALSE

WriteLocked ==
    \E c \in 1..Len(calls) : calls[c].op = "add_fact" /\ calls[c].phase = "inserted"

\* cursor.lastrowid of the INSERT.
LastRowId(fs) == Len(fs) + 1

\* add_fact up to the INSERT.  With the database locked or failing the call
\* returns None at once.
InsertFact(input, db_ok) ==
    /\ Len(calls) < MaxCalls
    /\ Len(facts) < MaxFacts
    /\ calls' = Append(calls,
                       IF db_ok /\ ~WriteLocked
                       THEN [op |-> "add_fact", input |-> input, phase |-> "inserted",
                             id |-> LastRowId(facts), ok |-> FALSE, fitted_at |-> 0,
                             docs |-> <<>>]
                       ELSE [op |-> "add_fact", input |-> input, phase |-> "returned",
                             id |-> 0, ok |-> FALSE, fitted_at |-> 0, docs |-> <<>>])
    /\ UNCHANGED <<facts, semantic_vectors, conversations, predefined_responses,
                   model_ready, knowledge_base_up, ml_engine_up,
                   conversation_history, last, now, system, services>>

\* The rest of add_fact: _update_semantic_vector on the same connection,
\* which sees the new row, then the commit and the return of the id; an
\* error of the commit rolls the transaction back and returns None.
CommitFact(c, db_ok) ==
    /\ calls[c].op = "add_fact"
    /\ calls[c].phase = "inserted"
    /\ LET row == [id |-> calls[c].id, content |-> calls[c].input.content,
                   category |-> calls[c].input.category,
                   importance |-> calls[c].input.importance, created_at |-> now,
                   last_accessed |-> <<>>, access_count |-> 0]
           rows == Append(facts, row)
           refit == /\ Len(rows) >= VectorMinFacts
                    /\ FitTransform(FactContents(rows), TRUE, MinDf, MaxDfPct).error
                          = "none"
       IN /\ facts' = IF db_ok THEN rows ELSE facts
          /\ semantic_vectors' = IF db_ok
                                 THEN UpdateSemanticVector(rows, semantic_vectors)
                                 ELSE semantic_vectors
          /\ calls' = [calls EXCEPT
                          ![c].phase = "returned",
                          ![c].ok = db_ok,
                          ![c].fitted_at = IF refit THEN FitCount + 1 ELSE 0,
                          ![c].docs = IF refit THEN FactContents(rows) ELSE <<>>]
    /\ UNCHANGED <<conversations, predefined_responses, model_ready,
                   knowledge_base_up, ml_engine_up, conversation_history, last,
                   now, system, services>>

\* search_facts up to the fit of the vectorizer on the facts read and the
\* query.  An empty table, a failing SELECT and the ValueError of an empty or
\* fully pruned vocabulary end the call with [] before anything is fitted.
FitSearch(query, limit, db_ok) ==
    /\ Len(calls) < MaxCalls
    /\ LET docs == FactContents(facts) \o <<query>>
           fails == ~db_ok \/ facts = <<>>
                       \/ FitTransform(docs, TRUE, MinDf, MaxDfPct).error # "none"
       IN calls' = Append(calls,
                          [op |-> "search_facts", query |-> query, limit |-> limit,
                           rows |-> IF db_ok THEN facts ELSE <<>>,
                           docs |-> IF fails THEN <<>> ELSE docs,
                           phase |-> IF fails THEN "returned" ELSE "fitted",
                           fitted_at |-> IF fails THEN 0 ELSE FitCount + 1,
                           raced |-> FALSE,
                           error |-> IF ~db_ok THEN "storage"
                                     ELSE IF facts = <<>> THEN "none"
                                     ELSE FitTransform(docs, TRUE, MinDf, MaxDfPct).error,
                           similarities |-> <<>>, results |-> <<>>])
    /\ UNCHANGED <<facts, semantic_vectors, conversations, predefined_responses,
                   model_ready, knowledge_base_up, ml_engine_up,
                   conversation_history, last, now, system, services>>

\* The rest of search_facts: the transform with the weights the vectorizer
\* holds now, the similarities, the ranking, the rows of the top facts (read
\* again by id, here from the rows first read, whose content, category and
\* importance never change) and the update of the access statistics.
RankSearch(c, stats_ok) ==
    /\ calls[c].op = "search_facts"
    /\ calls[c].phase = "fitted"
    /\ LET call == calls[c]
           idf == IdfOf(LastFitted, TRUE, MinDf, MaxDfPct)
           transformed == TransformWith(call.docs, idf, TRUE, MinDf, MaxDfPct)
           cosine_similarities == IF transformed.error # "none" THEN <<>>
                                  ELSE CosineSimilarities(transformed.matrix)
           ranked == IF transformed.error # "none"
                     THEN [error |-> transformed.error, sorted |-> <<>>,
                           similarities |-> <<>>]
                     ELSE [error |-> "none",
                           sorted |-> SortDesc(Rankings(call.rows, cosine_similarities)),
                           similarities |-> cosine_similarities]
           found == SearchResult(call.rows, ranked, call.limit, TRUE)
       IN /\ facts' = AfterSearch(facts, found.results, stats_ok)
          /\ calls' = [calls EXCEPT ![c].phase = "returned",
                                    ![c].raced = (call.fitted_at # FitCount),
                                    ![c].error = found.error,
                                    ![c].similarities = cosine_similarities,
                                    ![c].results = found.results]
    /\ UNCHANGED <<semantic_vectors, conversations, predefined_responses,
                   model_ready, knowledge_base_up, ml_engine_up,
                   conversation_history, last, now, system, services>>

InitThreads ==
    /\ facts \in {<<>>, StoreOf(<<FParisLo, FMadrid>>)}
    /\ semantic_vectors = <<>>
    /\ conversations = <<>>
    /\ predefined_responses = LoadPredefinedResponses("missing")
    /\ model_ready = FALSE
    /\ knowledge_base_up = TRUE
    /\ ml_engine_up = TRUE
    /\ conversation_history = <<>>
    /\ last = Idle
    /\ now = 0
    /\ calls = <<>>
    /\ system = Started(knowledge_base_up)
    /\ IdleServices

NextThreads ==
    \/ \E input \in {FMadrid, FCapital}, db_ok \in BOOLEAN : InsertFact(input, db_ok)
    \/ \E c \in 1..Len(calls), db_ok \in BOOLEAN : CommitFact(c, db_ok)
    \/ \E query \in {TParis, TMadrid}, limit \in {1, 10},
          db_ok \in BOOLEAN : FitSearch(query, limit, db_ok)
    \/ \E c \in 1..Len(calls), stats_ok \in BOOLEAN : RankSearch(c, stats_ok)

SpecThreads == InitThreads /\ [][NextThreads]_vars

(***************************************************************************)
(* add_fact on a store of five facts and more, where                      *)
(* _update_semantic_vector fits the vectorizer on every content and       *)
(* replaces the stored vectors of type 'fact'.  The fit raises when       *)
(* pruning leaves no term; the method logs the error, the vectors stay as *)
(* they were, and add_fact commits the new row.                            *)
(***************************************************************************)
MaxVectorFacts == 7

\* A store of four facts that all say "capital".
FourCapitals == StoreOf(<<FCapital, FCapital, FCapital, FCapital>>)

InitVectors ==
    /\ facts = FourCapitals
    /\ semantic_vectors = <<>>
    /\ conversations = <<>>
    /\ predefined_responses = LoadPredefinedResponses("missing")
    /\ model_ready = FALSE
    /\ knowledge_base_up = TRUE
    /\ ml_engine_up = TRUE
    /\ conversation_history = <<>>
    /\ last = Idle
    /\ now = 0
    /\ calls = <<>>
    /\ system = Started(knowledge_base_up)
    /\ IdleServices

NextVectors ==
    \/ \E input \in {FCapital, FMadrid, FNonsense}, db_ok \in BOOLEAN :
          AddFactUpTo(MaxVectorFacts, input, db_ok)
    \/ \E category \in Categories : GetFactsByCategory(category)

SpecVectors == InitVectors /\ [][NextVectors]_vars

(***************************************************************************)
(* process_input from the worker threads of the window.  _on_send_message *)
(* starts a WorkerThread for every message; the send button is disabled   *)
(* meanwhile, but Ctrl+Enter goes through eventFilter, which does not     *)
(* look at the button, so a second call can start before the first has    *)
(* returned.  Nothing guards conversation_history: a call appends the     *)
(* user entry, resolves the response, and appends the assistant entry,    *)
(* and other calls run in between.                                         *)
(***************************************************************************)
\* process_input up to the append of the user entry; an input that is empty
\* or not a string is answered at once.
BeginInput(user_input) ==
    /\ Len(calls) < MaxCalls
    /\ IF ~user_input.is_str \/ user_input.text = <<>>
       THEN /\ calls' = Append(calls,
                               [op |-> "process_input", input |-> user_input,
                                phase |-> "returned", logged |-> FALSE,
                                value |-> NoResponse,
                                response |-> Literal(WaitingReply)])
            /\ UNCHANGED conversation_history
       ELSE /\ calls' = Append(calls,
                               [op |-> "process_input", input |-> user_input,
                                phase |-> "resolving", logged |-> FALSE,
                                value |-> NoResponse, response |-> NoResponse])
            /\ conversation_history' =
                  Append(conversation_history,
                         [role |-> "user", content |-> user_input.text])
    /\ UNCHANGED <<facts, semantic_vectors, conversations, predefined_responses,
                   model_ready, knowledge_base_up, ml_engine_up, last, now, system, services>>

\* The rest of process_input: the response is resolved, appended as the
\* assistant entry, spoken and returned; an exception on the way is answered
\* with the error sentence.
FinishInput(c) ==
    /\ calls[c].op = "process_input"
    /\ calls[c].phase = "resolving"
    /\ \E ranked \in {RankFacts(facts, calls[c].input.text)},
          match \in {HistoryMatch(conversations, calls[c].input.text)},
          failure \in Failures, speak_ok \in BOOLEAN :
         \E found \in {SearchResult(facts, ranked, ResolverLimit,
                                    failure # "search")},
            predefined \in {GetPredefinedResponse(
                               predefined_responses, calls[c].input.text,
                               GetSemanticResponse(match, failure # "history"))} :
           \E resolved \in IF ml_engine_up
                           THEN GenerateResponse(calls[c].input.text, found,
                                                 predefined, model_ready)
                           ELSE WithoutEngine(predefined) :
              /\ facts' = IF resolved.searched
                          THEN AfterSearch(facts, found.results, failure # "stats")
                          ELSE facts
              /\ conversation_history' =
                    IF resolved.raised THEN conversation_history
                    ELSE Append(conversation_history,
                                [role |-> "assistant", content |-> resolved.value])
              /\ calls' = [calls EXCEPT
                              ![c].phase = "returned",
                              ![c].logged = ~resolved.raised,
                              ![c].value = resolved.value,
                              ![c].response = IF resolved.raised \/ ~speak_ok
                                              THEN Literal(ProcessErrorReply)
                                              ELSE resolved.value]
    /\ UNCHANGED <<semantic_vectors, conversations, predefined_responses,
                   model_ready, knowledge_base_up, ml_engine_up, last, now, system, services>>

InitInputs ==
    /\ facts \in {<<>>, StoreOf(<<FParisLo, FMadrid>>)}
    /\ semantic_vectors = <<>>
    /\ conversations = <<>>
    /\ predefined_responses = LoadPredefinedResponses("missing")
    /\ knowledge_base_up = TRUE
    /\ ml_engine_up \in BOOLEAN
    /\ model_ready = FALSE
    /\ conversation_history = <<>>
    /\ last = Idle
    /\ now = 0
    /\ calls = <<>>
    /\ system = Started(knowledge_base_up)
    /\ IdleServices

NextInputs ==
    \/ \E user_input \in {[is_str |-> TRUE, text |-> t] :
                            t \in {QHola, TCapitalFrancia, TNonsense, TEmpty}}
                           \cup {[is_str |-> FALSE, text |-> TEmpty]} :
          BeginInput(user_input)
    \/ \E c \in 1..Len(calls) : FinishInput(c)

SpecInputs == InitInputs /\ [][NextInputs]_vars


(***************************************************************************)
(* KnowledgeHarvester.start, stop and _continuous_harvesting.  start and   *)
(* stop are called from the GUI thread; every started thread runs the      *)
(* loop `while self.is_running:` over the one flag of the object.          *)
(***************************************************************************)
MaxThreads == 3

HarvestedFacts == {FMadrid, FNonsense}

ActiveLoops == {t \in 1..Len(harvester.threads) : harvester.threads[t] # "exited"}

\* start(): a running harvester returns True at once; otherwise the flag is
\* raised and a new thread is started on _continuous_harvesting.
HarvesterStart ==
    /\ \/ /\ harvester.is_running
          /\ harvester' = harvester
       \/ /\ ~harvester.is_running
          /\ Len(harvester.threads) < MaxThreads
          /\ harvester' = [is_running |-> TRUE, threads |-> Append(harvester.threads, "testing")]
    /\ last' = [op |-> "start", returned |-> TRUE]
    /\ UNCHANGED <<facts, semantic_vectors, conversations, predefined_responses, model_ready, knowledge_base_up, ml_engine_up, conversation_history, now, calls, system, training, config>>

\* stop(): a stopped harvester returns True at once; otherwise the flag is
\* lowered and harvester_thread, the thread started last, is joined for at
\* most 5 seconds.  A thread at its loop condition reads the lowered flag and
\* exits within the join; a thread inside an iteration (a download, or the
\* sleep of pause_between_requests = 10 s, or of 30 s after an exception)
\* either reaches the condition in time (joined) or outlives the join.
HarvesterStop(joined) ==
    /\ \/ /\ ~harvester.is_running
          /\ harvester' = harvester
       \/ /\ harvester.is_running
          /\ \E n \in {Len(harvester.threads)} :
                harvester' = [is_running |-> FALSE, threads |-> [t \in 1..n |-> IF t = n /\ (joined \/ harvester.threads[t] = "testing") THEN "exited" ELSE harvester.threads[t]]]
    /\ last' = [op |-> "stop", returned |-> TRUE]
    /\ UNCHANGED <<facts, semantic_vectors, conversations, predefined_responses, model_ready, knowledge_base_up, ml_engine_up, conversation_history, now, calls, system, training, config>>

\* `while self.is_running:` evaluated by thread t.
LoopTest(t) ==
    /\ harvester.threads[t] = "testing"
    /\ harvester' = [harvester EXCEPT !.threads[t] = IF harvester.is_running THEN "working" ELSE "exited"]
    /\ UNCHANGED <<facts, semantic_vectors, conversations, predefined_responses, model_ready, knowledge_base_up, ml_engine_up, conversation_history, last, now, calls, system, training, config>>

\* A fact of the article under work is handed to add_fact by thread t.
HarvestFact(t, input, db_ok) ==
    /\ harvester.threads[t] = "working"
    /\ AddFact(input, db_ok)

\* The iteration of thread t ends (after its sleep) and the loop goes back
\* to its condition.
EndIteration(t) ==
    /\ harvester.threads[t] = "working"
    /\ harvester' = [harvester EXCEPT !.threads[t] = "testing"]
    /\ UNCHANGED <<facts, semantic_vectors, conversations, predefined_responses, model_ready, knowledge_base_up, ml_engine_up, conversation_history, last, now, calls, system, training, config>>

InitHarvester ==
    /\ facts = <<>>
    /\ semantic_vectors = <<>>
    /\ conversations = <<>>
    /\ predefined_responses = LoadPredefinedResponses("missing")
    /\ model_ready = FALSE
    /\ knowledge_base_up = TRUE
    /\ ml_engine_up = TRUE
    /\ conversation_history = <<>>
    /\ last = Idle
    /\ now = 0
    /\ calls = <<>>
    /\ system = Started(knowledge_base_up)
    /\ IdleServices

NextHarvester ==
    \/ HarvesterStart
    \/ \E joined \in BOOLEAN : HarvesterStop(joined)
    \/ \E t \in 1..Len(harvester.threads) : LoopTest(t)
    \/ \E t \in 1..Len(harvester.threads), input \in HarvestedFacts, db_ok \in BOOLEAN : HarvestFact(t, input, db_ok)
    \/ \E t \in 1..Len(harvester.threads) : EndIteration(t)

SpecHarvester == InitHarvester /\ [][NextHarvester]_vars


(***************************************************************************)
(* ConfigManager.get, set and reset called on one manager.                 *)
(***************************************************************************)
ConfigKeys == {<<"logs_path">>, <<"voice_settings">>, <<"voice_settings", "speed">>, <<"ui_settings", "theme">>, <<"extra", "level">>}

PredefinedKeys == {<<"logs_path">>, <<"voice_settings">>, <<"voice_settings", "speed">>, <<"ui_settings", "theme">>}

ConfigValues == {"2.0"}

SetConfig(key, value) ==
    /\ \E done \in {ConfigSet(config, key, Scalar(value))} :
          /\ config' = done.config
          /\ last' = [op |-> "set", key |-> key, returned |-> done.returned]
    /\ UNCHANGED <<facts, semantic_vectors, conversations, predefined_responses, model_ready, knowledge_base_up, ml_engine_up, conversation_history, now, calls, system, harvester, training>>

ResetConfig(key, save_ok) ==
    /\ \E done \in {ConfigReset(config, key, save_ok)} :
          /\ config' = done.config
          /\ last' = [op |-> "reset", key |-> key, returned |-> done.returned]
    /\ UNCHANGED <<facts, semantic_vectors, conversations, predefined_responses, model_ready, knowledge_base_up, ml_engine_up, conversation_history, now, calls, system, harvester, training>>

GetConfig(key) ==
    /\ last' = [op |-> "get", key |-> key, value |-> ConfigGet(config, key)]
    /\ UNCHANGED <<facts, semantic_vectors, conversations, predefined_responses, model_ready, knowledge_base_up, ml_engine_up, conversation_history, now, calls, system, services>>

InitConfig ==
    /\ facts = <<>>
    /\ semantic_vectors = <<>>
    /\ conversations = <<>>
    /\ predefined_responses = LoadPredefinedResponses("missing")
    /\ model_ready = FALSE
    /\ knowledge_base_up = TRUE
    /\ ml_engine_up = TRUE
    /\ conversation_history = <<>>
    /\ last = Idle
    /\ now = 0
    /\ calls = <<>>
    /\ system = Started(knowledge_base_up)
    /\ harvester = HarvesterIdle
    /\ training = TrainingIdle
    /\ config \in {ConfigManagerOf(file) : file \in ConfigFiles}

NextConfig ==
    \/ \E key \in ConfigKeys, value \in ConfigValues : SetConfig(key, value)
    \/ \E key \in ConfigKeys \cup {<<>>}, save_ok \in BOOLEAN : ResetConfig(key, save_ok)
    \/ \E key \in ConfigKeys : GetConfig(key)

SpecConfig == InitConfig /\ [][NextConfig]_vars


(***************************************************************************)
(* MLEngine.train.  The guard `if self.is_training` and the assignment     *)
(* `self.is_training = True` are separate statements with no lock between  *)
(* them, so a call is followed through three steps: the guards, the        *)
(* assignment that opens the training body, and the rest of the body up to *)
(* the finally clause.                                                     *)
(***************************************************************************)
MinExamples == 10

TrainingSizes == {0, MinExamples - 1, MinExamples}

\* How the training body ends: the three early returns, model.fit and
\* _save_model completed, fit failed and the checkpoint was loaded, fit
\* failed with no usable checkpoint, an exception before fit.
TrainOutcomes == {"no_sequences", "few_pairs", "no_model", "fitted", "recovered", "fit_failed", "raised"}

TrainReturn(outcome) == outcome \in {"fitted", "recovered"}

TrainCalls == {c \in 1..Len(calls) : calls[c].op = "train"}

InTrainingBody == {c \in TrainCalls : calls[c].phase = "training"}

\* train(text_data) up to the try statement: False when a training is in
\* course or the data has fewer than 10 examples.
BeginTrain(examples) ==
    /\ Len(calls) < MaxCalls
    /\ \E refused \in {training.is_training \/ examples < MinExamples} :
          calls' = Append(calls, [op |-> "train", examples |-> examples, phase |-> IF refused THEN "returned" ELSE "checked", outcome |-> IF refused THEN "refused" ELSE "none", returned |-> FALSE])
    /\ UNCHANGED <<facts, semantic_vectors, conversations, predefined_responses, model_ready, knowledge_base_up, ml_engine_up, conversation_history, last, now, system, services>>

\* self.is_training = True, the first statement of the try.
EnterTrain(c) ==
    /\ calls[c].op = "train"
    /\ calls[c].phase = "checked"
    /\ training' = [training EXCEPT !.is_training = TRUE]
    /\ calls' = [calls EXCEPT ![c].phase = "training"]
    /\ UNCHANGED <<facts, semantic_vectors, conversations, predefined_responses, model_ready, knowledge_base_up, ml_engine_up, conversation_history, last, now, system, harvester, config>>

\* The rest of the body; every way out passes the finally clause, which
\* sets is_training to False.
FinishTrain(c, outcome) ==
    /\ calls[c].op = "train"
    /\ calls[c].phase = "training"
    /\ training' = [training EXCEPT !.is_training = FALSE]
    /\ calls' = [calls EXCEPT ![c].phase = "returned", ![c].outcome = outcome, ![c].returned = TrainReturn(outcome)]
    /\ UNCHANGED <<facts, semantic_vectors, conversations, predefined_responses, model_ready, knowledge_base_up, ml_engine_up, conversation_history, last, now, system, harvester, config>>

InitTraining ==
    /\ facts = <<>>
    /\ semantic_vectors = <<>>
    /\ conversations = <<>>
    /\ predefined_responses = LoadPredefinedResponses("missing")
    /\ model_ready = FALSE
    /\ knowledge_base_up = TRUE
    /\ ml_engine_up = TRUE
    /\ conversation_history = <<>>
    /\ last = Idle
    /\ now = 0
    /\ calls = <<>>
    /\ system = Started(knowledge_base_up)
    /\ IdleServices

NextTraining ==
    \/ \E examples \in TrainingSizes : BeginTrain(examples)
    \/ \E c \in 1..Len(calls) : EnterTrain(c)
    \/ \E c \in 1..Len(calls), outcome \in TrainOutcomes : FinishTrain(c, outcome)

SpecTraining == InitTraining /\ [][NextTraining]_vars

(***************************************************************************)
(* Properties of the resolution call.  last records the latest call: its  *)
(* input, the response returned to the caller, and what the resolver did  *)
(* (the tiers tried in order, the tier that answered, whether             *)
(* search_facts was called and what it returned).                         *)
(***************************************************************************)
ResolutionCall ==
    /\ last.op = "process_input"
    /\ last.resolved.tier \notin {"rejected", "unavailable"}

\* The number the tiered strategy gives to a step of a resolution call: the
\* keyword checks are tier 1, the fact search tier 2, the conversation
\* history tier 3, the unknown responses tier 4.
TierNumber(step) ==
    CASE step \in {"greeting", "pattern"} -> 1
      [] step = "fact" -> 2
      [] step = "history" -> 3
      [] step = "unknown" -> 4

IsTier(step) == step \in {"greeting", "pattern", "fact", "history", "unknown"}

TiersTried == SelectSeq(last.resolved.trace, IsTier)

\* C1: in every resolution call the tiers are evaluated strictly in the order
\* pattern (1), fact search (2), conversation history (3), unknown (4): the
\* tier numbers of the steps tried increase strictly, and the tier that
\* answers is the last one tried.
C1_TiersInOrder ==
    ResolutionCall =>
       /\ \A i \in 1..Len(TiersTried), j \in 1..Len(TiersTried) :
             i < j => TierNumber(TiersTried[i]) < TierNumber(TiersTried[j])
       /\ last.resolved.tier \in {"generate", "error"}
             \/ last.resolved.tier = TiersTried[Len(TiersTried)]

HasGreetingKeyword == ContainsAny(Lower(last.input.text), GreetingPatterns)

HasFarewellKeyword == ContainsAny(Lower(last.input.text), FarewellPatterns)

\* The responses of a predefined response set, as replies.
ResponseSet(key) ==
    IF key \in predefined_responses.keys
    THEN {Literal(predefined_responses.lists[key][i]) :
             i \in 1..Len(predefined_responses.lists[key])}
    ELSE {}

\* C2: a query whose lowercased text contains a greeting or farewell keyword
\* is answered with a member of the corresponding predefined response set,
\* whatever the fact store holds, and search_facts is not called.
C2_KeywordBypassesSearch ==
    /\ (ResolutionCall /\ HasGreetingKeyword /\ ResponseSet("greeting") # {})
          => /\ ~last.resolved.searched
             /\ last.resolved.value \in ResponseSet("greeting")
    /\ (ResolutionCall /\ ~HasGreetingKeyword /\ HasFarewellKeyword
          /\ ResponseSet("farewell") # {})
          => /\ ~last.resolved.searched
             /\ last.resolved.value \in ResponseSet("farewell")

\* The similarity of the k-th fact search_facts returned in the latest call.
SimilarityOfResult(k) == last.similarities[last.search.results[k].id]

\* C3: a fact whose similarity to the query is below the minimum threshold
\* is never used as a match: a reply composed from facts uses only facts of
\* similarity at least the threshold.
C3_ThresholdOnFacts ==
    (ResolutionCall /\ last.resolved.tier = "fact") =>
       \A k \in 1..Len(last.search.results) :
          SimilarityOfResult(k) >= MinSimilarity

\* C4: whatever the input, the stores, the predefined responses and the
\* failures, process_input returns a non-empty text and does not raise.
C4_NonEmptyReply ==
    last.op = "process_input" =>
       /\ ~last.raised
       /\ Truthy(last.response)

\* A nonsense query against an empty fact store and an empty conversation
\* table.
NothingToMatch ==
    /\ ResolutionCall
    /\ facts = <<>>
    /\ conversations = <<>>
    /\ ~HasGreetingKeyword
    /\ ~HasFarewellKeyword

SearchErred == last.search.error # "none"

HistoryErred == last.resolved.history_error # "none"

\* No tier after the fact search matches: no keyword with a response set,
\* and no usable reply from the conversation history.
NoLaterMatch ==
    /\ ~(HasGreetingKeyword /\ "greeting" \in predefined_responses.keys)
    /\ ~(HasFarewellKeyword /\ "farewell" \in predefined_responses.keys)
    /\ \/ HistoryErred
       \/ ~Truthy(HistoryMatch(conversations, last.input.text).value)

\* C6: an error in the fact search or in the history tier is not propagated:
\* the resolver does not raise, a failed search is followed by a later tier,
\* a failed history tier by the unknown tier, and when nothing else matches
\* and no text is generated the unknown tier answers.
C6_ErrorsFallThrough ==
    (ResolutionCall /\ (SearchErred \/ HistoryErred)) =>
       /\ ~last.resolved.raised
       /\ SearchErred =>
             /\ last.resolved.tier # "fact"
             /\ Len(last.resolved.trace) > 2
       /\ HistoryErred =>
             /\ last.resolved.tier = "unknown"
             /\ last.resolved.value \in
                   {choice.value : choice \in UnknownResponse(predefined_responses)}
       /\ (NoLaterMatch /\ last.resolved.tier # "generate") =>
             last.resolved.tier = "unknown"

C6_BothTiersErred ==
    /\ ResolutionCall
    /\ last.search.error = "max_df corresponds to < documents than min_df"
    /\ last.resolved.history_error = "empty vocabulary"
    /\ last.resolved.tier = "unknown"

(***************************************************************************)
(* Properties of the fact store.  last records the latest operation: for  *)
(* search_facts the query, the limit, the list returned, the error logged *)
(* and the similarities computed.                                          *)
(***************************************************************************)
\* A search_facts call that the storage layer answered.
SearchCall ==
    /\ last.op = "search_facts"
    /\ last.error # "storage"

Min(a, b) == IF a < b THEN a ELSE b

\* The combined score of the fact with the given id in the latest search.
ScoreOf(fact_id) ==
    CombinedScore(last.similarities[fact_id], facts[fact_id].importance)

ResultIds == {last.results[k].id : k \in 1..Len(last.results)}

\* C7: search_facts(query, limit) with limit >= 0 over n facts returns
\* exactly min(limit, n) facts, those of the highest combined score, in
\* non-increasing order of combined score.
C7_TopByCombinedScore ==
    (SearchCall /\ last.limit >= 0) =>
       /\ Len(last.results) = Min(last.limit, Len(facts))
       /\ \A k \in 1..(Len(last.results) - 1) :
             ScoreOf(last.results[k].id) >= ScoreOf(last.results[k + 1].id)
       /\ \A i \in 1..Len(facts), k \in 1..Len(last.results) :
             i \notin ResultIds => ScoreOf(i) <= ScoreOf(last.results[k].id)

\* Two texts share a term when some n-gram the vectorizer extracts occurs in
\* both.
SharesTerms(a, b) ==
    Features(Tokenize(a, TRUE)) \cap Features(Tokenize(b, TRUE)) # {}

\* C8: after add_fact succeeds, a search_facts call whose query shares terms
\* with the added content returns the added fact as the top (or only)
\* result, also when it is the only fact in the store.
C8_AddedFactIsTop ==
    [][(/\ last.op = "add_fact"
        /\ last.ok
        /\ last'.op = "search_facts"
        /\ last'.error # "storage"
        /\ last'.limit >= 1
        /\ SharesTerms(last'.query, last.input.content))
          => /\ last'.results # <<>>
             /\ last'.results[1].id = last.returned]_vars

\* C9: when the store holds exactly two facts of identical content and
\* different importance, a search for that content returns both, the more
\* important one first.
C9_ImportanceTieBreak ==
    (/\ SearchCall
     /\ last.limit >= 2
     /\ Len(facts) = 2
     /\ facts[1].content = facts[2].content
     /\ facts[1].importance # facts[2].importance
     /\ last.query = facts[1].content)
       => /\ Len(last.results) = 2
          /\ last.results[1].importance > last.results[2].importance

\* C10: if the query is identical to the content of a stored fact, that fact
\* has similarity 1.0 and is the first result, whatever the other facts are.
C10_IdenticalFactFirst ==
    (/\ last.op = "search_facts"
     /\ last.error = "none"
     /\ last.limit >= 1
     /\ \E i \in 1..Len(facts) : facts[i].content = last.query)
       => /\ last.results # <<>>
          /\ last.results[1].content = last.query
          /\ \A i \in 1..Len(facts) :
                facts[i].content = last.query => last.similarities[i] = 1000

\* A search_facts call that ranked the facts.
RankedSearch ==
    /\ last.op = "search_facts"
    /\ last.error = "none"
    /\ facts # <<>>

\* The position of a returned fact in the result list.
PositionOf(fact_id) == CHOOSE k \in 1..Len(last.results) : last.results[k].id = fact_id

\* C11: of two facts of equal importance, the one of strictly higher
\* similarity to the query comes first when both are returned, and the other
\* is never returned without it.
C11_HigherSimilarityFirst ==
    RankedSearch =>
       \A a \in 1..Len(facts), b \in 1..Len(facts) :
          (/\ facts[a].importance = facts[b].importance
           /\ last.similarities[a] > last.similarities[b]
           /\ b \in ResultIds)
             => /\ a \in ResultIds
                /\ PositionOf(a) < PositionOf(b)

C11_LaterFactRanksFirst ==
    /\ RankedSearch
    /\ \E a \in 1..Len(facts), b \in 1..Len(facts) :
          /\ b < a
          /\ facts[a].importance = facts[b].importance
          /\ last.similarities[a] > last.similarities[b]
          /\ last.similarities[b] > 0
          /\ {a, b} \subseteq ResultIds

\* The ids of a result list, in order.
IdsOf(results) == [k \in 1..Len(results) |-> results[k].id]

\* C12: two consecutive search_facts calls with the same query and limit,
\* both answered by the storage layer, return the same ordered list of fact
\* ids, although the first call updates the access statistics.
C12_SearchDeterministic ==
    [][(/\ last.op = "search_facts"
        /\ last'.op = "search_facts"
        /\ last'.query = last.query
        /\ last'.limit = last.limit
        /\ last.error # "storage"
        /\ last'.error # "storage")
          => IdsOf(last'.results) = IdsOf(last.results)]_vars

C12_SearchedTwice ==
    /\ RankedSearch
    /\ last.limit = 1
    /\ last.results # <<>>
    /\ ~last.stats_error
    /\ \A i \in ResultIds : facts[i].access_count = 2
    /\ \E i \in 1..Len(facts) : facts[i].access_count = 0

\* C13: search_facts on a store with no facts returns the empty list without
\* an error of its own, fits no vectorizer and leaves the store as it was.
C13_EmptyStoreSearch ==
    [][(facts = <<>> /\ last'.op = "search_facts")
          => /\ last'.results = <<>>
             /\ last'.error \in {"none", "storage"}
             /\ ~last'.vectorized
             /\ facts' = facts
             /\ semantic_vectors' = semantic_vectors
             /\ conversations' = conversations]_vars

C13_SearchedEmptyStore ==
    /\ last.op = "search_facts"
    /\ facts = <<>>
    /\ last.query = TCapitalFrancia
    /\ last.limit = 10
    /\ last.error = "none"

\* The rows after a read that returned the given results and updated the
\* access statistics at the current time: the rows returned are counted and
\* stamped, the others and every other field are as before.
Accounted(results) ==
    [i \in 1..Len(facts) |->
       IF \E k \in 1..Len(results) : results[k].id = facts[i].id
       THEN [facts[i] EXCEPT !.access_count = @ + 1, !.last_accessed = <<now>>]
       ELSE facts[i]]

\* C14: after a search_facts call that returns R and whose statistics update
\* succeeds, every fact in R has access_count one greater than before and
\* last_accessed set to the call time, and every fact not in R and every
\* other field of every fact is unchanged.
C14_AccessAccounting ==
    [][(/\ now' = now
        /\ last'.op = "search_facts"
        /\ ~last'.stats_error)
          => facts' = Accounted(last'.results)]_vars

C14_ReadCountedAndStamped ==
    /\ last.op = "search_facts"
    /\ ~last.stats_error
    /\ now = 1
    /\ \E i \in ResultIds : facts[i].access_count = 2 /\ facts[i].last_accessed = <<1>>
    /\ \E i \in 1..Len(facts) :
          i \notin ResultIds /\ facts[i].access_count = 1 /\ facts[i].last_accessed = <<0>>

\* C14 for every call, the statistics update succeeding or not: the facts of
\* the returned list are counted and stamped.
C14_AccountingAlways ==
    [][(now' = now /\ last'.op = "search_facts")
          => facts' = Accounted(last'.results)]_vars

\* C16: if the access statistics update fails during a search_facts call,
\* the failure is logged and the ranked list the call computed is returned
\* as it is.
C16_ResultSurvivesStatsError ==
    (last.op = "search_facts" /\ last.stats_error) =>
       /\ last.error = "none"
       /\ last.results # <<>>
       /\ last.results =
             SearchResult(facts, RankFacts(facts, last.query), last.limit, TRUE).results

C16_StatsErrorWithResults ==
    /\ last.op = "search_facts"
    /\ last.stats_error
    /\ Len(last.results) >= 2
    /\ \A i \in ResultIds : facts[i].access_count = 0

\* The calls that have returned the fact with the given id.
ReturnedWith(fact_id) ==
    {c \in 1..Len(calls) :
        /\ calls[c].phase = "returned"
        /\ \E k \in 1..Len(calls[c].results) : calls[c].results[k].id = fact_id}

AllReturned == \A c \in 1..Len(calls) : calls[c].phase = "returned"

\* C15: under any interleaving of concurrent search_facts and
\* get_facts_by_category calls, the access_count of a fact is its initial
\* value plus the number of calls that returned it and whose statistics
\* update was applied: no applied increment is lost.
C15_NoLostIncrement ==
    \A i \in 1..Len(facts) :
       facts[i].access_count =
          Cardinality({c \in ReturnedWith(i) : calls[c].updated})

C15_OverlappingReadsCounted ==
    /\ AllReturned
    /\ \E i \in 1..Len(facts) :
          /\ facts[i].access_count = 2
          /\ \E c \in ReturnedWith(i) : calls[c].overlapped /\ calls[c].updated

\* C15 for every call, its update applied or not: once the calls have
\* returned, the access_count of a fact is its initial value plus the number
\* of calls that returned it.
C15_EveryReadCounted ==
    AllReturned =>
       \A i \in 1..Len(facts) :
          facts[i].access_count = Cardinality(ReturnedWith(i))

\* C17: add_fact with empty content fails: it returns no id and leaves the
\* store unchanged.
C17_EmptyContentRejected ==
    [][(last'.op = "add_fact" /\ last'.input.content = TEmpty) =>
          (~last'.ok /\ facts' = facts)]_vars

\* C20: every stored fact has importance between 0 and 1 (0 and 10 tenths)
\* and a non-negative access_count, whatever arguments add_fact was given.
C20_ImportanceAndCountInRange ==
    \A i \in 1..Len(facts) :
       /\ facts[i].importance >= 0
       /\ facts[i].importance <= 10
       /\ facts[i].access_count >= 0

\* The list a read finds when every statement of it succeeds.
ListAsRead ==
    IF last.op = "search_facts"
    THEN SearchResult(facts, RankFacts(facts, last.query), last.limit, TRUE).results
    ELSE CategoryRows(facts, last.category)

C19_StoreFailureIsFatal ==
    /\ knowledge_base_up => system.store_usable
    /\ system.is_running => (knowledge_base_up /\ system.store_usable)

\* The add_fact calls that have returned an id.
AddedCalls ==
    {c \in 1..Len(calls) :
        calls[c].op = "add_fact" /\ calls[c].phase = "returned" /\ calls[c].ok}

\* C21: across any interleaving of add_fact calls, every successful call
\* returns an id that no other call has returned, and the id denotes exactly
\* one stored fact, the one the call inserted.
C21_IdsUniqueAndOwn ==
    \A c \in AddedCalls :
       /\ \A d \in AddedCalls : d # c => calls[d].id # calls[c].id
       /\ Cardinality({i \in 1..Len(facts) : facts[i].id = calls[c].id}) = 1
       /\ \A i \in 1..Len(facts) :
             facts[i].id = calls[c].id =>
                /\ facts[i].content = calls[c].input.content
                /\ facts[i].category = calls[c].input.category
                /\ facts[i].importance = calls[c].input.importance

C21_TwoCallsAdded ==
    /\ Cardinality(AddedCalls) = 2
    /\ Len(facts) = 2
    /\ facts[2].id = 2

\* C22: a search_facts call that runs interleaved with other add_fact and
\* search_facts calls on the same object computes its similarities from
\* vectors fitted on exactly the facts it read plus its own query: what it
\* returns is what the same search of the same rows returns when it runs
\* alone.
C22_SnapshotConsistent ==
    \A c \in 1..Len(calls) :
       (calls[c].op = "search_facts" /\ calls[c].phase = "returned"
           /\ calls[c].rows # <<>>) =>
          LET alone == RankFacts(calls[c].rows, calls[c].query)
          IN /\ calls[c].error = alone.error
             /\ calls[c].similarities = alone.similarities
             /\ calls[c].results =
                   SearchResult(calls[c].rows, alone, calls[c].limit, TRUE).results

\* C23: get_facts_by_category(c), when the database answers, returns
\* exactly the stored facts whose category is c, each once, in order of
\* non-increasing importance, and the empty list when there is none.
C23_ExactlyTheCategory ==
    (last.op = "get_facts_by_category" /\ last.error = "none") =>
       /\ {last.results[k].id : k \in 1..Len(last.results)} =
             {facts[i].id : i \in {j \in 1..Len(facts) :
                                     facts[j].category = last.category}}
       /\ \A k, l \in 1..Len(last.results) :
             /\ k < l => last.results[k].importance >= last.results[l].importance
             /\ k # l => last.results[k].id # last.results[l].id
       /\ \A k \in 1..Len(last.results) :
             /\ last.results[k].content = RowOf(facts, last.results[k].id).content
             /\ last.results[k].importance = RowOf(facts, last.results[k].id).importance

\* The stored turns the history tier reads, most recent first, and their
\* similarities to the query of the latest call.
HistoryRows == Slice(Reverse(conversations), HistoryLimit)

HistorySimilarities ==
    LET fit == FitTransform([i \in 1..Len(HistoryRows) |-> HistoryRows[i].user_input]
                               \o <<last.input.text>>, FALSE, 1, 100)
    IN IF fit.error # "none" THEN <<>> ELSE CosineSimilarities(fit.matrix)

HistoryTried ==
    /\ ResolutionCall
    /\ \E k \in 1..Len(last.resolved.trace) : last.resolved.trace[k] = "history"

\* C24: the conversation-history tier answers only when at least 5 turns
\* are stored and the best cosine similarity of the query to a stored user
\* input exceeds 0.6, and its reply is then the stored system_response of a
\* turn of that best similarity, as stored; whenever it does not answer, the
\* resolution goes on to the unknown tier.
C24_HistoryTier ==
    HistoryTried =>
       IF last.resolved.tier = "history"
       THEN /\ Len(conversations) >= 5
            /\ \E i \in 1..Len(HistorySimilarities) :
                  /\ HistorySimilarities[i] > 600
                  /\ \A j \in 1..Len(HistorySimilarities) :
                        HistorySimilarities[j] <= HistorySimilarities[i]
                  /\ last.resolved.value = Literal(HistoryRows[i].system_response)
       ELSE last.resolved.trace[Len(last.resolved.trace)] = "unknown"

C24_HistoryAnswered ==
    /\ HistoryTried
    /\ last.resolved.tier = "history"
    /\ conversations = FiveTurns
    /\ last.input.text = QChiste
    /\ last.resolved.value = Literal("Un chiste a su orden, Su Majestad.")

\* C25: of two facts of equal combined score, the one stored first comes
\* first when both are returned, and the one stored later is never returned
\* without it: ties keep the order of the rows read, also at the cut of limit.
C25_TiesInCorpusOrder ==
    RankedSearch =>
       \A a \in 1..Len(facts), b \in 1..Len(facts) :
          (/\ a < b
           /\ CombinedScore(last.similarities[a], facts[a].importance)
                 = CombinedScore(last.similarities[b], facts[b].importance)
           /\ b \in ResultIds)
             => /\ a \in ResultIds
                /\ PositionOf(a) < PositionOf(b)

C25_TieAtTheCut ==
    /\ RankedSearch
    /\ last.limit = 1
    /\ Len(facts) = 3
    /\ ResultIds = {1}
    /\ \A b \in 2..3 :
          CombinedScore(last.similarities[b], facts[b].importance)
             = CombinedScore(last.similarities[1], facts[1].importance)

\* C26: after an add_fact call that returned an id, the stored vectors of
\* type 'fact', once any has been written, are one vector for every fact in
\* the store, the new one included: no vector set that omits a stored fact
\* is left behind.
C26_NoStaleVectors ==
    (last.op = "add_fact" /\ last.ok /\ semantic_vectors # <<>>) =>
       semantic_vectors = FactIds(facts)

\* The process_input calls given a non-empty string.
TextCalls ==
    {c \in 1..Len(calls) :
        calls[c].input.is_str /\ calls[c].input.text # <<>>}

\* C27: conversation_history holds, for every process_input call with a
\* non-empty string and for no other call, one user entry followed by one
\* assistant entry with the response the call returned (unless it returned
\* its error sentence), so that the entries alternate user, assistant, also
\* when the calls overlap.
C27_AlternatingLog ==
    AllReturned =>
       /\ Len(conversation_history) = 2 * Cardinality(TextCalls)
       /\ \A k \in 1..Len(conversation_history) :
             conversation_history[k].role =
                IF k % 2 = 1 THEN "user" ELSE "assistant"
       /\ \A k \in 1..Len(conversation_history) :
             k % 2 = 1 =>
                \E c \in TextCalls :
                   /\ conversation_history[k].content = calls[c].input.text
                   /\ k < Len(conversation_history)
                   /\ \/ calls[c].response = Literal(ProcessErrorReply)
                      \/ conversation_history[k + 1].content = calls[c].response

\* C28: after any sequence of start() and stop() calls at most one
\* _continuous_harvesting loop is active.
C28_OneLoop == Cardinality(ActiveLoops) <= 1

\* C30: after reset(key) has succeeded on a predefined key, get(key)
\* returns the value _set_default_config defines for it.
C30_ResetRestoresDefault == (last.op = "reset" /\ last.key \in PredefinedKeys /\ last.returned) => ConfigGet(config, last.key) = PredefinedValue(last.key)

\* C29: is_training is True exactly while one train call executes its
\* training body, and at most one training runs at a time.
C29_OneTrainingAtATime == Cardinality(InTrainingBody) <= 1 /\ (training.is_training <=> InTrainingBody # {})

====
